---------------------------- MODULE Spec2Model ----------------------------
(***************************************************************************)
(* Model of the packed memory array of BTreePMACC7                         *)
(* (src/pma/btree/btreepmacc7.cpp): two parallel arrays of keys and values *)
(* split into segments of B slots, the per-segment cardinalities, the      *)
(* separator index, and the operations insert, remove, find, range, sum    *)
(* and load_sorted with their rebalancing (two-chunk spread, rewired       *)
(* spread, resize).  Array cells are modelled one by one, stale cells      *)
(* included, so that every copy loop of the source is a copy in the model. *)
(*                                                                         *)
(* The model is scaled down: a segment holds B = 4 slots (the source       *)
(* requires >= 32) and the array has at most MaxSegments segments.  The    *)
(* number of segments per rewiring extent (extent bytes / segment bytes)   *)
(* is a construction parameter, drawn in Init from SegmentsPerExtent.      *)
(* Memory that was allocated and not yet written holds one of FillValues.  *)
(***************************************************************************)
EXTENDS Integers, Sequences, FiniteSets, TLC

\* ------------------------------------------------------------------ bounds
\* segment capacity (m_segment_capacity), a power of two
B == 4
\* keys are drawn from 1..MaxKey
MaxKey == 10
\* the array never grows beyond this number of segments
MaxSegments == 4
\* longest batch handed to load_sorted
MaxBatch == 7
\* number of operations called on one index
MaxOps == 4
\* load_sorted is called among the first MaxLoadOps operations only
MaxLoadOps == 2
\* stand-in for numeric_limits<int64_t>::min()
I64Min == -1000
\* stand-in for numeric_limits<int64_t>::max()
I64Max == 1000
\* the value find and remove return for a key that is not stored
Missing == -1

Keys == 1..MaxKey
\* a stored value: 10 * key + tag, so never the Missing sentinel
Tags == {0}
ValueOf(k, t) == 10 * k + t
\* what memory that was allocated and never written may hold
FillValues == {0, 99}
\* segments per extent of a configuration whose extent is larger than the
\* largest array explored: the memory is never rewired and every spread is
\* the two-chunk spread
NoRewire == 64

Min(a, b) == IF a < b THEN a ELSE b
Max(a, b) == IF a > b THEN a ELSE b

\* C++ integer division, truncating towards zero
CDiv(a, b) == IF a >= 0 THEN a \div b ELSE -((-a) \div b)

\* smallest power of two >= n
RECURSIVE HyperceilFrom(_, _)
HyperceilFrom(p, n) == IF p >= n THEN p ELSE HyperceilFrom(2 * p, n)
hyperceil(n) == HyperceilFrom(1, n)

\* log2 of a power of two
RECURSIVE Log2(_)
Log2(n) == IF n <= 1 THEN 0 ELSE 1 + Log2(n \div 2)

\* ------------------------------------------------------------------ memory
\* an array of n cells, all holding x
NewArray(n, x) == [i \in 0..(n - 1) |-> x]
\* a read outside the array yields the fill of unwritten memory
Rd(a, i) == IF i \in DOMAIN a THEN a[i] ELSE 0
\* a write outside the array is dropped
Wr(a, i, x) == IF i \in DOMAIN a THEN [a EXCEPT ![i] = x] ELSE a
\* memcpy(dst + d0, src + s0, n * sizeof) on non-overlapping ranges
Copy(dst, d0, src, s0, n) ==
    [i \in DOMAIN dst |-> IF i >= d0 /\ i < d0 + n THEN Rd(src, s0 + (i - d0)) ELSE dst[i]]


\* ------------------------------------------------------------------- state
VARIABLES
    keys,             \* m_storage.m_keys, cells 0 .. m_capacity - 1
    values,           \* m_storage.m_values
    sizes,            \* m_storage.m_segment_sizes, at least two entries
    sep,              \* separator key of each segment in the static index
    cardinality,      \* m_storage.m_cardinality
    capacity,         \* m_storage.m_capacity
    number_segments,  \* m_storage.m_number_segments
    height,           \* m_storage.m_height
    rewired,          \* m_storage.m_memory_keys != nullptr
    used_buffers,     \* buffers acquired from the rewiring pool, not released
    spe,              \* segments per extent: extent bytes / (B * 8)
    trap,             \* "" or how the last operation failed to complete
    stored,           \* the pairs inserted or loaded and not yet removed
    last,             \* what the last operation was and what it did
    nops              \* the number of operations called so far

vars == <<keys, values, sizes, sep, cardinality, capacity, number_segments,
          height, rewired, used_buffers, spe, trap, stored, last, nops>>

\* the storage and its index as one record, the argument of every operation;
\* no_memory: the system has no memory left for a new workspace;
\* memcpy_backward: the memcpy of the build copies from the last byte to the
\* first (the order is the library's choice)
Storage == [keys |-> keys, values |-> values, sizes |-> sizes, sep |-> sep,
            cardinality |-> cardinality, capacity |-> capacity,
            number_segments |-> number_segments, height |-> height,
            rewired |-> rewired, used_buffers |-> used_buffers, spe |-> spe,
            trap |-> trap, no_memory |-> FALSE, memcpy_backward |-> FALSE]

\* ---------------------------------------------------------- separator index
\* StaticIndex::rebuild(n): n separators, undefined until set
IndexRebuild(st, n) == [st EXCEPT !.sep = NewArray(n, I64Min)]
\* StaticIndex::set_separator_key
SetSeparator(st, s, k) == [st EXCEPT !.sep = Wr(st.sep, s, k)]
\* StaticIndex::find: the last segment whose separator is <= key, or 0
IndexFind(st, key) ==
    LET c == {s \in DOMAIN st.sep : st.sep[s] <= key}
    IN IF c = {} THEN 0 ELSE CHOOSE s \in c : \A t \in c : t <= s
\* StaticIndex::find_first: the last segment whose separator is < key, or 0
IndexFindFirst(st, key) ==
    LET c == {s \in DOMAIN st.sep : st.sep[s] < key}
    IN IF c = {} THEN 0 ELSE CHOOSE s \in c : \A t \in c : t <= s
\* StaticIndex::find_last: the last segment whose separator is <= key, or 0
IndexFindLast(st, key) == IndexFind(st, key)

\* ------------------------------------------------------------ density bounds
\* thresholds in hundredths: leaves 0.08 / 0.92, root 0.30 / 0.75
RhoLeaves == 8
RhoRoot == 30
ThetaRoot == 75
ThetaLeaves == 92
\* the bounds of a node at height h of a tree of height H (H > 1), linear
\* between leaves and root: numerators over the denominator 100 * (H - 1)
RhoNum(h, H) == RhoRoot * (H - 1) - (RhoRoot - RhoLeaves) * (H - h)
ThetaNum(h, H) == ThetaRoot * (H - 1) + (ThetaLeaves - ThetaRoot) * (H - h)
ThresholdDen(H) == 100 * (H - 1)
\* a faulty comparison, with the upper bound of the leaves at every height
DensityAboveLeafTheta(n, w, h, H) == n * 100 > ThetaLeaves * w * B
\* density = n / (w * B) compared with the bounds of height h
DensityAboveTheta(n, w, h, H) == n * ThresholdDen(H) > ThetaNum(h, H) * w * B
DensityBelowRho(n, w, h, H) == n * ThresholdDen(H) < RhoNum(h, H) * w * B

\* ---------------------------------------------------------------- allocation
\* PMA::alloc_workspace when the memory is refused: the three pointers it was
\* given are reset and the exception leaves the caller
AllocWorkspaceFailed(st) == [st EXCEPT !.trap = "bad_alloc"]
\* PMA::dealloc_workspace followed by a refused PMA::alloc_workspace, both on
\* the arrays of the storage itself: no array is left
WorkspaceLost(st, fill) ==
    [st EXCEPT !.keys = NewArray(0, fill),
               !.values = NewArray(0, fill),
               !.sizes = NewArray(0, fill),
               !.rewired = FALSE,
               !.used_buffers = 0,
               !.trap = "bad_alloc"]
\* a faulty alloc_workspace: the second cardinality is left as allocated
AllocWorkspaceUnmarked(st, n, fill) ==
    [st EXCEPT !.keys = NewArray(n * B, fill),
               !.values = NewArray(n * B, fill),
               !.sizes = NewArray(Max(2, n), fill),
               !.rewired = (n >= st.spe),
               !.used_buffers = 0]
\* PMA::alloc_workspace: fresh arrays for n segments, at least two
\* cardinalities with the second set to 0; rewired memory when the keys
\* span an extent
AllocWorkspace(st, n, fill) ==
    [st EXCEPT !.keys = NewArray(n * B, fill),
               !.values = NewArray(n * B, fill),
               !.sizes = [NewArray(Max(2, n), fill) EXCEPT ![1] = 0],
               !.rewired = (n >= st.spe),
               !.used_buffers = 0]

\* BTreePMACC7::get_minimum
get_minimum(st, s) ==
    IF s % 2 = 0 THEN Rd(st.keys, (s + 1) * B - st.sizes[s])
    ELSE Rd(st.keys, s * B)

\* -------------------------------------------------------------------- insert
\* BTreePMACC7::insert_empty
insert_empty(st, key, value) ==
    LET pos == B - 1
    IN [st EXCEPT !.sep = Wr(st.sep, 0, key),
                  !.sizes = Wr(st.sizes, 0, 1),
                  !.keys = Wr(st.keys, pos, key),
                  !.values = Wr(st.values, pos, value),
                  !.cardinality = 1]

\* the loop of an even segment: slide the keys smaller than `key' one slot
\* to the left, return the slot of the new key
RECURSIVE EvenSlot(_, _, _, _)
EvenSlot(a, i, stop, key) ==
    IF i < stop /\ Rd(a, i + 1) < key THEN EvenSlot(a, i + 1, stop, key) ELSE i
\* a faulty loop of an odd segment: the new key always goes behind the run
OddSlotLast(a, i, base, key) == i
\* the loop of an odd segment: slide the greater keys one slot to the right
RECURSIVE OddSlot(_, _, _, _)
OddSlot(a, i, base, key) ==
    IF i > 0 /\ Rd(a, base + i - 1) > key THEN OddSlot(a, i - 1, base, key) ELSE i

\* cells from..to-1 take the content of their right neighbour, cell `to' x
ShiftLeftPut(a, from, to, x) ==
    [p \in DOMAIN a |-> IF p >= from /\ p < to THEN Rd(a, p + 1)
                        ELSE IF p = to THEN x ELSE a[p]]
\* cells from+1..to take the content of their left neighbour, cell `from' x
ShiftRightPut(a, from, to, x) ==
    [p \in DOMAIN a |-> IF p > from /\ p <= to THEN Rd(a, p - 1)
                        ELSE IF p = from THEN x ELSE a[p]]

\* BTreePMACC7::storage_insert_unsafe: the storage after the insertion and
\* whether the key became the minimum of the segment.  On a full segment
\* (the assertion of the source fails) the unsigned start wraps, the loop is
\* skipped and the pair lands in the cell before (even) or after (odd) the
\* segment.
storage_insert_unsafe(st, segment_id, key, value) ==
    LET base == segment_id * B
        sz == st.sizes[segment_id]
    IN IF segment_id % 2 = 0
       THEN LET stop == base + B - 1
                start == base + B - sz - 1
                i == IF sz >= B THEN start ELSE EvenSlot(st.keys, start, stop, key)
            IN [st |-> [st EXCEPT !.keys = ShiftLeftPut(st.keys, start, i, key),
                                  !.values = ShiftLeftPut(st.values, start, i, value),
                                  !.sizes = Wr(st.sizes, segment_id, sz + 1),
                                  !.cardinality = st.cardinality + 1],
                minimum |-> (i = start)]
       ELSE LET i == OddSlot(st.keys, sz, base, key)
            IN [st |-> [st EXCEPT !.keys = ShiftRightPut(st.keys, base + i, base + sz, key),
                                  !.values = ShiftRightPut(st.values, base + i, base + sz, value),
                                  !.sizes = Wr(st.sizes, segment_id, sz + 1),
                                  !.cardinality = st.cardinality + 1],
                minimum |-> (i = 0)]


\* the first loop or copy of an operation that left defined behaviour
Trap(st, what) == IF st.trap = "" THEN [st EXCEPT !.trap = what] ELSE st
\* two ranges of n cells of the same array overlap
Overlap(d0, s0, n) == n > 0 /\ d0 < s0 + n /\ s0 < d0 + n

\* --------------------------------------------------------- two-chunk spread
\* the pending insertion of a rebalance: no insertion when `on' is FALSE
NoInsert == [on |-> FALSE, key |-> 0, value |-> 0, segment_id |-> 0]
SpreadInsert(k, v, s) == [on |-> TRUE, key |-> k, value |-> v, segment_id |-> s]

\* BTreePMACC7::spread_insert_unsafe, the position of the new key among the
\* n keys starting at from[f0]
RECURSIVE InsertPos(_, _, _, _, _)
InsertPos(from, f0, n, i, key) ==
    IF i < n /\ Rd(from, f0 + i) < key THEN InsertPos(from, f0, n, i + 1, key) ELSE i
\* BTreePMACC7::spread_insert_unsafe, one array: to[t0 ..] takes the n cells
\* from[f0 ..] with x put in as cell number i
InsertCopy(to, t0, from, f0, n, i, x) ==
    [p \in DOMAIN to |->
        IF p >= t0 /\ p < t0 + i THEN Rd(from, f0 + (p - t0))
        ELSE IF p = t0 + i THEN x
        ELSE IF p > t0 + i /\ p <= t0 + n THEN Rd(from, f0 + (p - t0) - 1)
        ELSE to[p]]

\* m_storage.m_segment_capacity: m_capacity is m_number_segments times it
SegmentCapacity(st) == st.capacity \div st.number_segments
\* memcpy(a + d0, a + s0, n * sizeof) within one array, cell after cell in
\* the order of the library: on ranges that overlap a cell read after it
\* was written yields what was written
MemcpyWithin(a, d0, s0, n, backward) ==
    [p \in DOMAIN a |->
        IF p >= d0 /\ p < d0 + n
        THEN IF backward /\ d0 < s0
             THEN Rd(a, s0 + (p - d0) + (s0 - d0) * ((n - 1 - (p - d0)) \div (s0 - d0)))
             ELSE IF ~backward /\ d0 > s0
             THEN Rd(a, s0 + ((p - d0) % (d0 - s0)))
             ELSE Rd(a, s0 + (p - d0))
        ELSE a[p]]

\* start of the run of the pair (seg, seg + 1), relative to the window
PairStart(st, ws, seg) == (seg + 1) * SegmentCapacity(st) - Rd(st.sizes, ws + seg)
PairLength(st, ws, seg) == Rd(st.sizes, ws + seg) + Rd(st.sizes, ws + seg + 1)

\* capacity of the second input chunk of spread_two_copies
Chunk2Capacity(st) == 4 * SegmentCapacity(st) + 1

\* spread_two_copies, step 1, first loop: the last four segments go to
\* chunk 2, filled from its end.  L: st, c2k, c2v, seg, copied, left
RECURSIVE TwoCopiesToChunk2(_, _, _, _)
TwoCopiesToChunk2(L, ws, ins, insseg) ==
    IF ~(L.seg >= 0 /\ L.copied < 4) THEN L
    ELSE LET off == ws * SegmentCapacity(L.st)
             from == off + PairStart(L.st, ws, L.seg)
             n == PairLength(L.st, ws, L.seg)
             here == insseg = L.seg \/ insseg = L.seg + 1
             i == InsertPos(L.st.keys, from, n, 0, ins.key)
         IN TwoCopiesToChunk2(
              [L EXCEPT
                 !.c2k = IF here THEN InsertCopy(L.c2k, L.left - n - 1, L.st.keys, from, n, i, ins.key)
                         ELSE Copy(L.c2k, L.left - n, L.st.keys, from, n),
                 !.c2v = IF here THEN InsertCopy(L.c2v, L.left - n - 1, L.st.values, from, n, i, ins.value)
                         ELSE Copy(L.c2v, L.left - n, L.st.values, from, n),
                 !.st.cardinality = IF here THEN @ + 1 ELSE @,
                 !.left = IF here THEN @ - n - 1 ELSE @ - n,
                 !.seg = @ - 2,
                 !.copied = @ + 2],
              ws, ins, insseg)

\* spread_two_copies, step 1, second loop: the remaining pairs move to the
\* right end of the window (chunk 1).  L: st, seg, cur (relative to window)
RECURSIVE TwoCopiesToChunk1(_, _, _, _)
TwoCopiesToChunk1(L, ws, ins, insseg) ==
    IF ~(L.seg >= 0) THEN L
    ELSE LET off == ws * SegmentCapacity(L.st)
             from == off + PairStart(L.st, ws, L.seg)
             n == PairLength(L.st, ws, L.seg)
             here == insseg = L.seg \/ insseg = L.seg + 1
             i == InsertPos(L.st.keys, from, n, 0, ins.key)
             to == off + L.cur - n - (IF here THEN 1 ELSE 0)
         IN TwoCopiesToChunk1(
              [L EXCEPT
                 !.st.trap = IF Overlap(to, from, n) /\ @ = "" THEN "memcpy_overlap" ELSE @,
                 !.st.keys = IF here THEN InsertCopy(@, off + L.cur - n - 1, @, from, n, i, ins.key)
                             ELSE MemcpyWithin(@, off + L.cur - n, from, n, L.st.memcpy_backward),
                 !.st.values = IF here THEN InsertCopy(@, off + L.cur - n - 1, @, from, n, i, ins.value)
                               ELSE MemcpyWithin(@, off + L.cur - n, from, n, L.st.memcpy_backward),
                 !.st.cardinality = IF here THEN @ + 1 ELSE @,
                 !.cur = IF here THEN @ - n - 1 ELSE @ - n,
                 !.seg = @ - 2],
              ws, ins, insseg)

\* a faulty share, the remainder of n / w forgotten
EvenShareFloor(n, w, i) == n \div w
\* a faulty share, the last n mod w segments taking one more
EvenShareRightmost(n, w, i) == (n \div w) + (IF i >= w - (n % w) THEN 1 ELSE 0)
\* the cardinality of segment i of a window of w segments that holds n
\* elements: the first n mod w segments take one more
EvenShare(n, w, i) == (n \div w) + (IF i < n % w THEN 1 ELSE 0)

\* a faulty step 2: the sizes of the window and of the segment behind it
SetWindowSizesBeyond(szs, ws, w, n) ==
    [s \in DOMAIN szs |-> IF s >= ws /\ s <= ws + w THEN EvenShare(n, w, s - ws) ELSE szs[s]]
\* step 2 of spread_two_copies: the expected size of each segment
SetWindowSizes(szs, ws, w, n) ==
    [s \in DOMAIN szs |-> IF s >= ws /\ s < ws + w THEN EvenShare(n, w, s - ws) ELSE szs[s]]

\* spread_two_copies, step 4, the copy loop of one pair.  L: st, c2k, c2v,
\* in1 (TRUE while chunk 1 is the input), ibase (start of chunk 1 in the
\* array, or of chunk 2 in its buffer), isize, icur, c2base, c2size, ocur
RECURSIVE TwoCopiesFillPair(_, _)
TwoCopiesFillPair(L, oend) ==
    IF ~(L.ocur < oend) THEN L
    ELSE LET n == Min(oend - L.ocur, L.isize - L.icur)
             srck == IF L.in1 THEN L.st.keys ELSE L.c2k
             srcv == IF L.in1 THEN L.st.values ELSE L.c2v
             switch == (L.icur + n = L.isize) /\ L.in1
         IN IF n = 0 /\ ~switch
            THEN [L EXCEPT !.st = Trap(@, "spread_two_copies"), !.ocur = oend]
            ELSE TwoCopiesFillPair(
                   [L EXCEPT
                      !.st.trap = IF L.in1 /\ Overlap(L.ocur, L.ibase + L.icur, n) /\ @ = ""
                                  THEN "memcpy_overlap" ELSE @,
                      !.st.keys = IF L.in1
                                  THEN MemcpyWithin(@, L.ocur, L.ibase + L.icur, n,
                                                    L.st.memcpy_backward)
                                  ELSE Copy(@, L.ocur, srck, L.ibase + L.icur, n),
                      !.st.values = IF L.in1
                                    THEN MemcpyWithin(@, L.ocur, L.ibase + L.icur, n,
                                                      L.st.memcpy_backward)
                                    ELSE Copy(@, L.ocur, srcv, L.ibase + L.icur, n),
                      !.ocur = @ + n,
                      !.icur = IF switch THEN 0 ELSE @ + n,
                      !.in1 = IF switch THEN FALSE ELSE @,
                      !.ibase = IF switch THEN L.c2base ELSE @,
                      !.isize = IF switch THEN L.c2size ELSE @],
                   oend)

\* spread_two_copies, step 4: pair after pair, left to right; the separator
\* keys are set from the first key of each segment's run
RECURSIVE TwoCopiesFill(_, _, _, _)
TwoCopiesFill(L, ws, w, i) ==
    IF ~(i < w) THEN L
    ELSE LET off == ws * SegmentCapacity(L.st)
             ostart == off + PairStart(L.st, ws, i)
             oend == ostart + PairLength(L.st, ws, i)
             Separated(M) ==
                 [M EXCEPT !.st = SetSeparator(
                                    SetSeparator(@, ws + i, Rd(@.keys, ostart)),
                                    ws + i + 1, Rd(@.keys, ostart + Rd(@.sizes, ws + i)))]
         IN TwoCopiesFill(Separated(TwoCopiesFillPair([L EXCEPT !.ocur = ostart], oend)),
                          ws, w, i + 2)

\* BTreePMACC7::spread_two_copies
spread_two_copies(st, n, ws, w, ins, fill) ==
    LET insseg == IF ins.on THEN ins.segment_id - ws ELSE -1
        \* steps 2 to 4, from the chunks L1 and L2 of step 1
        Fill(L1, L2) ==
            LET c2size == Chunk2Capacity(st) - L1.left
                c1size == w * SegmentCapacity(st) - L2.cur
            IN TwoCopiesFill(
                 [st |-> [L2.st EXCEPT !.sizes = SetWindowSizes(@, ws, w, n)],
                  c2k |-> L1.c2k, c2v |-> L1.c2v,
                  in1 |-> (c1size > 0),
                  ibase |-> IF c1size > 0 THEN ws * SegmentCapacity(st) + L2.cur ELSE L1.left,
                  isize |-> IF c1size > 0 THEN c1size ELSE c2size,
                  icur |-> 0, c2base |-> L1.left, c2size |-> c2size, ocur |-> 0],
                 ws, w, 0).st
        Chunk1(L1) ==
            Fill(L1, TwoCopiesToChunk1([st |-> L1.st, seg |-> L1.seg,
                                        cur |-> w * SegmentCapacity(st)],
                                       ws, ins, insseg))
    IN Chunk1(TwoCopiesToChunk2(
                [st |-> st, c2k |-> NewArray(Chunk2Capacity(st), fill),
                 c2v |-> NewArray(Chunk2Capacity(st), fill),
                 seg |-> w - 2, copied |-> 0, left |-> Chunk2Capacity(st)],
                ws, ins, insseg))


\* ------------------------------------------------------------ rewired spread
\* SpreadWithRewiring::position2extent, relative to the window
position2extent(st, ws, position) == ((position - ws * B) \div B) \div st.spe
\* SpreadWithRewiring::get_current_extent
get_current_extent(st, ws, position) == position2extent(st, ws, position - 1)
\* SpreadWithRewiring::get_offset
get_offset(st, ws, extent_id) == ws * B + extent_id * st.spe * B

\* RewiredMemory::swap_and_release on both arrays: the extent shows the
\* content of the scratch buffer, the buffer goes back to the pool
SwapAndRelease(st, ws, e) ==
    LET n == st.spe * B
    IN [st EXCEPT !.keys = Copy(@, get_offset(st, ws, e.extent_id), e.bk, 0, n),
                  !.values = Copy(@, get_offset(st, ws, e.extent_id), e.bv, 0, n),
                  !.used_buffers = @ - 1]

\* SpreadWithRewiring::reclaim_past_extents.  R: st, position, queue
RECURSIVE reclaim_past_extents(_, _)
reclaim_past_extents(R, ws) ==
    IF R.queue # <<>> /\ Head(R.queue).extent_id > get_current_extent(R.st, ws, R.position)
    THEN reclaim_past_extents(
           [R EXCEPT !.st = SwapAndRelease(R.st, ws, Head(R.queue)), !.queue = Tail(@)], ws)
    ELSE R

\* SpreadWithRewiring::spread_elements, the copy loop of one output pair.
\* L: st, bk, bv, tobuf, dbase (start of the destination), iseg, iptr, irun
\* (the input pair, the array offset of its run and what is left of it)
RECURSIVE SpreadPair(_, _, _, _)
SpreadPair(L, ws, odisp, orun) ==
    IF ~(orun > 0) THEN L
    ELSE LET n == Max(0, Min(orun, L.irun))
             d0 == L.dbase + odisp + (orun - n)
             s0 == L.iptr + (L.irun - n)
             left == L.irun - n
             nseg == L.iseg - 2
             M == [L EXCEPT
                     !.st.trap = IF ~L.tobuf /\ Overlap(d0, s0, n) /\ @ = ""
                                 THEN "memcpy_overlap" ELSE @,
                     !.st.keys = IF L.tobuf THEN @ ELSE Copy(@, d0, @, s0, n),
                     !.st.values = IF L.tobuf THEN @ ELSE Copy(@, d0, @, s0, n),
                     !.bk = IF L.tobuf THEN Copy(@, d0, L.st.keys, s0, n) ELSE @,
                     !.bv = IF L.tobuf THEN Copy(@, d0, L.st.values, s0, n) ELSE @,
                     !.irun = IF left # 0 THEN left
                              ELSE IF nseg >= ws
                                   THEN Rd(L.st.sizes, nseg) + Rd(L.st.sizes, nseg + 1)
                                   ELSE 0,
                     !.iptr = IF left # 0 THEN @
                              ELSE IF nseg >= ws
                                   THEN nseg * B + B - Rd(L.st.sizes, nseg)
                                   ELSE ws * B,
                     !.iseg = IF left # 0 THEN @ ELSE nseg]
         IN IF n = 0 /\ left # 0
            THEN [L EXCEPT !.st = Trap(@, "spread_elements")]
            ELSE IF n = 0 /\ nseg < ws - 4
            THEN [M EXCEPT !.st = Trap(@, "spread_elements")]
            ELSE SpreadPair(M, ws, odisp, orun - n)

\* SpreadWithRewiring::spread_elements, the loop over the output pairs of the
\* extent, from the last pair to the first
RECURSIVE SpreadPairs(_, _, _, _, _)
SpreadPairs(L, ws, oseg, eps, odd) ==
    IF ~(oseg >= 0) THEN L
    ELSE LET lhs == eps + (IF oseg < odd THEN 1 ELSE 0)
             rhs == eps + (IF oseg + 1 < odd THEN 1 ELSE 0)
             Continue(M) == IF M.st.trap = "spread_elements" THEN M
                            ELSE SpreadPairs(M, ws, oseg - 2, eps, odd)
         IN Continue(SpreadPair(L, ws, oseg * B + (B - lhs), lhs + rhs))

\* SpreadWithRewiring::spread_elements: num_elements go to the extent, read
\* backwards from R.position.  The result is R with the new position and,
\* for a scratch buffer, the buffer appended to the queue
spread_elements(R, ws, tobuf, extent_id, num_elements, fill) ==
    LET st == R.st
        iseg == CDiv(R.position - 1, 2 * B) * 2
        idisp == iseg * B + B - Rd(st.sizes, iseg)
        Result(L) ==
            [st |-> L.st,
             position |-> L.iptr + L.irun,
             queue |-> IF tobuf
                       THEN Append(R.queue, [extent_id |-> extent_id, bk |-> L.bk, bv |-> L.bv])
                       ELSE R.queue]
    IN Result(SpreadPairs(
               [st |-> st, bk |-> NewArray(st.spe * B, fill), bv |-> NewArray(st.spe * B, fill),
                tobuf |-> tobuf,
                dbase |-> IF tobuf THEN 0 ELSE get_offset(st, ws, extent_id),
                iseg |-> iseg, iptr |-> idisp, irun |-> R.position - idisp],
               ws, st.spe - 2, num_elements \div st.spe, num_elements % st.spe))

\* SpreadWithRewiring::spread_extent
spread_extent(R, ws, extent_id, num_elements, fill) ==
    LET use_rewiring == get_current_extent(R.st, ws, R.position) >= extent_id
    IN reclaim_past_extents(
         spread_elements(IF use_rewiring THEN [R EXCEPT !.st.used_buffers = @ + 1] ELSE R,
                         ws, use_rewiring, extent_id, num_elements, fill),
         ws)

\* SpreadWithRewiring::spread_window, extents i, i - 1, .. 0
RECURSIVE SpreadExtents(_, _, _, _, _, _)
SpreadExtents(R, ws, i, epe, odd, fill) ==
    IF ~(i >= 0) THEN R
    ELSE SpreadExtents(
           spread_extent(R, ws, i, epe + (IF i < odd THEN 1 ELSE 0), fill),
           ws, i - 1, epe, odd, fill)

\* SpreadWithRewiring::spread_window
spread_window(R, ws, w, n, fill) ==
    LET num_extents == w \div R.st.spe
    IN SpreadExtents(R, ws, num_extents - 1, n \div num_extents, n % num_extents, fill)

\* a faulty share of the rewired spread: no segment takes one more
RewiredShareFloor(st, w, n, i) == n \div w
\* SpreadWithRewiring::update_segment_sizes: the elements are shared out to
\* the extents first and inside each extent to its segments
RewiredShare(st, w, n, i) ==
    LET num_extents == w \div st.spe
        e == i \div st.spe
        extent_cardinality == EvenShare(n, num_extents, e)
    IN EvenShare(extent_cardinality, st.spe, i % st.spe)
update_segment_sizes(st, ws, w, n) ==
    [st EXCEPT !.sizes = [s \in DOMAIN @ |->
        IF s >= ws /\ s < ws + w THEN RewiredShare(st, w, n, s - ws) ELSE @[s]]]

\* SpreadWithRewiring::update_index: the separators of the window are read
\* back from the segments; the pending element is inserted in the segment
\* before the first one whose minimum is greater.  U: st, ins
RECURSIVE UpdateIndex(_, _, _, _)
UpdateIndex(U, ws, w, i) ==
    IF ~(i < w)
    THEN IF U.ins.on
         THEN storage_insert_unsafe(U.st, ws + w - 1, U.ins.key, U.ins.value).st
         ELSE U.st
    ELSE LET s == ws + i
             Step(minimum, now) ==
                 UpdateIndex(
                   [st |-> SetSeparator(
                             IF ~now THEN U.st
                             ELSE storage_insert_unsafe(U.st, IF i > 0 THEN s - 1 ELSE s,
                                                        U.ins.key, U.ins.value).st,
                             s, IF now /\ i = 0 THEN U.ins.key ELSE minimum),
                    ins |-> IF now THEN NoInsert ELSE U.ins],
                   ws, w, i + 1)
         IN Step(get_minimum(U.st, s), U.ins.on /\ U.ins.key < get_minimum(U.st, s))

\* SpreadWithRewiring::execute on the window [ws, ws + w) holding n elements
\* (the pending insertion not counted), read backwards from `position'
SpreadWithRewiring(st, ws, w, n, position, ins, fill) ==
    LET R == spread_window([st |-> st, position |-> position, queue |-> <<>>], ws, w, n, fill)
        st2 == update_segment_sizes(R.st, ws, w, n)
    IN UpdateIndex([st |-> st2, ins |-> ins], ws, w, 0)

\* the start position the constructor of SpreadWithRewiring computes
WindowEndPosition(st, ws, w) == (ws + w - 1) * B + Rd(st.sizes, ws + w - 1)

\* BTreePMACC7::spread
spread(st, n, ws, w, ins, fill) ==
    IF st.rewired /\ w >= st.spe
    THEN SpreadWithRewiring(st, ws, w, n + (IF ins.on THEN -1 ELSE 0),
                            WindowEndPosition(st, ws, w), ins, fill)
    ELSE spread_two_copies(st, n, ws, w, ins, fill)


\* -------------------------------------------------------------------- resize
\* a faulty position: every run taken to start at the front of its segment
RunStartFront(s, n) == s * B
\* position in the old arrays of the run of segment s holding n elements
RunStart(s, n) == s * B + (IF s % 2 = 1 THEN 0 ELSE B - n)

\* BTreePMACC7::resize_general, the do-while loop that fills one output
\* segment.  L: st (the new workspace), ixk, ixv, ixs (the old arrays),
\* nold (the old number of segments), iseg, isize, iptr (input cursor), ins
RECURSIVE ResizeCopy(_, _, _)
ResizeCopy(L, optr, togo) ==
    LET cpy1 == Min(togo, L.isize)
        left == L.isize - cpy1
        s1 == L.iseg + 1
        \* an empty input segment is skipped, one at most
        skip == s1 < L.nold /\ Rd(L.ixs, s1) = 0
        s2 == IF skip THEN s1 + 1 ELSE s1
        M == [L EXCEPT
                !.st.keys = Copy(@, optr, L.ixk, L.iptr, cpy1),
                !.st.values = Copy(@, optr, L.ixv, L.iptr, cpy1),
                !.iseg = IF left = 0 THEN s2 ELSE @,
                !.isize = IF left # 0 THEN left
                          ELSE IF s2 < L.nold THEN Rd(L.ixs, s2)
                          ELSE 0,
                !.iptr = IF left # 0 THEN @ + cpy1
                         ELSE IF s1 < L.nold
                              THEN RunStart(s2, IF s2 < L.nold THEN Rd(L.ixs, s2) ELSE 0)
                              ELSE @ + cpy1]
    IN IF togo - cpy1 > 0
       THEN IF cpy1 = 0 /\ s1 >= L.nold
            THEN [M EXCEPT !.st = Trap(@, "resize_general")]
            ELSE ResizeCopy(M, optr + cpy1, togo - cpy1)
       ELSE M

\* BTreePMACC7::resize_general, the loop over the output segments
RECURSIVE ResizeFill(_, _, _, _, _)
ResizeFill(L, j, num_segments, eps, odd) ==
    IF ~(j < num_segments)
    THEN IF L.ins.on
         THEN LET Inserted(r) ==
                      IF r.minimum THEN SetSeparator(r.st, num_segments - 1, L.ins.key)
                      ELSE r.st
              IN Inserted(storage_insert_unsafe(L.st, num_segments - 1, L.ins.key, L.ins.value))
         ELSE L.st
    ELSE LET n == eps + (IF j < odd THEN 1 ELSE 0)
             optr == j * B + (IF j % 2 = 1 THEN 0 ELSE B - n)
             st1 == SetSeparator([L.st EXCEPT !.sizes = Wr(@, j, n)], j, Rd(L.ixk, L.iptr))
             Inserted(r, key) == IF r.minimum THEN SetSeparator(r.st, j, key) ELSE r.st
             Continue(M, now) ==
                 IF M.st.trap = "resize_general" THEN M.st
                 ELSE ResizeFill(
                        [M EXCEPT !.st = IF ~now THEN @
                                         ELSE Inserted(storage_insert_unsafe(
                                                         @, j, M.ins.key, M.ins.value),
                                                       M.ins.key),
                                  !.ins = IF now THEN NoInsert ELSE @],
                        j + 1, num_segments, eps, odd)
             Filled(M) == Continue(M, M.ins.on /\ M.ins.key < Rd(M.st.keys, optr + n - 1))
         IN Filled(ResizeCopy([L EXCEPT !.st = st1], optr, n))

\* a faulty choice of the new capacity: a resize that only ever grows
ResizedCapacityGrowing(old_capacity, is_insert) == old_capacity * 2
\* BTreePMACC7::resize_general, the new capacity
ResizedCapacity(old_capacity, is_insert) ==
    IF is_insert THEN old_capacity * 2 ELSE old_capacity \div 2

\* BTreePMACC7::resize_general: a new workspace of twice (insertion) or half
\* (deletion) the capacity, filled evenly from the old one
resize_general(st, ins, fill) ==
    LET new_capacity == ResizedCapacity(st.capacity, ins.on)
        num_segments == new_capacity \div B
        ws == IndexRebuild(AllocWorkspace(st, num_segments, fill), num_segments)
        first_empty == Rd(st.sizes, 0) = 0
        L == [st |-> ws, ixk |-> st.keys, ixv |-> st.values, ixs |-> st.sizes,
              nold |-> st.number_segments,
              iseg |-> IF first_empty THEN 1 ELSE 0,
              isize |-> IF first_empty THEN Rd(st.sizes, 1) ELSE Rd(st.sizes, 0),
              iptr |-> IF first_empty THEN B ELSE B - Rd(st.sizes, 0),
              ins |-> ins]
        done == ResizeFill(L, 0, num_segments, st.cardinality \div num_segments,
                           st.cardinality % num_segments)
    IN IF st.no_memory THEN AllocWorkspaceFailed(st)
       ELSE [done EXCEPT !.capacity = new_capacity,
                         !.number_segments = num_segments,
                         !.height = Log2(num_segments) + 1]

\* ----------------------------------------------------------------- rebalance
\* number of elements in the segments [from, to) other than `except'
RECURSIVE WindowSum(_, _, _, _)
WindowSum(szs, from, to, except) ==
    IF from >= to THEN 0
    ELSE (IF from = except THEN 0 ELSE Rd(szs, from)) + WindowSum(szs, from + 1, to, except)

\* a faulty search of the window: the window ends at the segment instead of
\* being aligned to its length
RECURSIVE FindWindowUnaligned(_, _, _, _, _)
FindWindowUnaligned(st, segment_id, own, is_insert, h) ==
    LET w == 2 ^ (h - 1)
        ws == Max(0, segment_id - w + 1)
        n == own + WindowSum(st.sizes, ws, ws + w, segment_id)
        out == IF is_insert THEN DensityAboveTheta(n, w, h, st.height)
               ELSE DensityBelowRho(n, w, h, st.height)
    IN IF out /\ h < st.height
       THEN FindWindowUnaligned(st, segment_id, own, is_insert, h + 1)
       ELSE [height |-> h, window_start |-> ws, window_length |-> w,
             num_elements |-> n, resize |-> out]

\* BTreePMACC7::rebalance, the search of the window: climb the calibrator
\* tree from height h while the density of the window is out of its bound
\* and the root is not reached.  own: the elements counted for segment_id
RECURSIVE FindWindow(_, _, _, _, _)
FindWindow(st, segment_id, own, is_insert, h) ==
    LET w == 2 ^ (h - 1)
        ws == (segment_id \div w) * w
        n == own + WindowSum(st.sizes, ws, ws + w, segment_id)
        out == IF is_insert THEN DensityAboveTheta(n, w, h, st.height)
               ELSE DensityBelowRho(n, w, h, st.height)
    IN IF out /\ h < st.height
       THEN FindWindow(st, segment_id, own, is_insert, h + 1)
       ELSE [height |-> h, window_start |-> ws, window_length |-> w,
             num_elements |-> n, resize |-> out]

\* the window BTreePMACC7::rebalance settles on and whether it resizes; a
\* tree of height 1 is resized by an insertion and spread by a deletion
RebalancePlan(st, segment_id, is_insert) ==
    LET own == IF is_insert THEN B + 1 ELSE Rd(st.sizes, segment_id)
    IN IF st.height > 1 THEN FindWindow(st, segment_id, own, is_insert, 2)
       ELSE [height |-> 1, window_start |-> segment_id, window_length |-> 1,
             num_elements |-> own, resize |-> is_insert]

\* BTreePMACC7::rebalance
rebalance(st, segment_id, ins, fill) ==
    LET plan == RebalancePlan(st, segment_id, ins.on)
    IN IF plan.resize THEN resize_general(st, ins, fill)
       ELSE spread(st, plan.num_elements, plan.window_start, plan.window_length, ins, fill)

\* a faulty test of the bucket: never full
BucketNeverFull(st, segment_id) == FALSE
\* a faulty test of the bucket: full one element too early
BucketNearlyFull(st, segment_id) == Rd(st.sizes, segment_id) >= B - 1
\* BTreePMACC7::insert_common: is this bucket full?
BucketFull(st, segment_id) == Rd(st.sizes, segment_id) = B

\* BTreePMACC7::insert_common
insert_common(st, segment_id, key, value, fill) ==
    IF BucketFull(st, segment_id)
    THEN rebalance(st, segment_id, SpreadInsert(key, value, segment_id), fill)
    ELSE LET r == storage_insert_unsafe(st, segment_id, key, value)
         IN IF r.minimum THEN SetSeparator(r.st, segment_id, key) ELSE r.st

\* BTreePMACC7::insert
insert(st, key, value, fill) ==
    IF st.cardinality = 0 THEN insert_empty(st, key, value)
    ELSE insert_common(st, IndexFind(st, key), key, value, fill)

\* -------------------------------------------------------------------- remove
\* first position in [from, to) whose key is `key', or `to'
RECURSIVE Locate(_, _, _, _)
Locate(a, from, to, key) ==
    IF from < to /\ Rd(a, from) # key THEN Locate(a, from + 1, to, key) ELSE from

\* cells from+1..to take the content of their left neighbour
ShiftRight(a, from, to) ==
    [p \in DOMAIN a |-> IF p > from /\ p <= to THEN Rd(a, p - 1) ELSE a[p]]
\* cells from..to-1 take the content of their right neighbour
ShiftLeft(a, from, to) ==
    [p \in DOMAIN a |-> IF p >= from /\ p < to THEN Rd(a, p + 1) ELSE a[p]]

\* a faulty smallest cardinality: a remove never rebalances
MinimumSizeNone(cap) == 0
\* the smallest cardinality a segment of capacity cap may have without a
\* rebalance: the product of the lower bound of the leaves and the capacity
\* converted to size_t, 1 at least
MinimumSizeOf(cap) == Max((RhoLeaves * cap) \div 100, 1)
MinimumSize == MinimumSizeOf(B)

\* a faulty update of the pivot: the separator is left as it was
UpdatePivotSkipped(st, segment_id, imin) == st
\* BTreePMACC7::remove, an even segment has lost its first element: the
\* separator becomes the next key, or the lowest integer when that was the
\* last element of the array
UpdatePivot(st, segment_id, imin) ==
    IF st.cardinality = 0 THEN SetSeparator(st, 0, I64Min)
    ELSE SetSeparator(st, segment_id, Rd(st.keys, imin + 1))

\* BTreePMACC7::remove up to the rebalance: the key is found in its segment
\* and taken out, the separator follows
RemoveLocal(st, key) ==
    LET Even(segment_id, sz, imin, i) ==
            LET Separated(st1) ==
                    IF i # imin THEN st1 ELSE UpdatePivot(st1, segment_id, imin)
            IN IF i < imin + sz
               THEN [st |-> Separated([st EXCEPT !.keys = ShiftRight(@, imin, i),
                                                 !.values = ShiftRight(@, imin, i),
                                                 !.sizes = Wr(@, segment_id, sz - 1),
                                                 !.cardinality = @ - 1]),
                     value |-> Rd(st.values, i), segment_id |-> segment_id, sz |-> sz - 1]
               ELSE [st |-> st, value |-> Missing, segment_id |-> segment_id, sz |-> sz]
        Odd(segment_id, sz, base, i) ==
            LET Separated(st1) ==
                    IF i = base /\ sz - 1 > 0
                    THEN SetSeparator(st1, segment_id, Rd(st1.keys, base))
                    ELSE st1
            IN IF i < base + sz
               THEN [st |-> Separated([st EXCEPT !.keys = ShiftLeft(@, i, base + sz - 1),
                                                 !.values = ShiftLeft(@, i, base + sz - 1),
                                                 !.sizes = Wr(@, segment_id, sz - 1),
                                                 !.cardinality = @ - 1]),
                     value |-> Rd(st.values, i), segment_id |-> segment_id, sz |-> sz - 1]
               ELSE [st |-> st, value |-> Missing, segment_id |-> segment_id, sz |-> sz]
        In(segment_id, sz) ==
            IF segment_id % 2 = 0
            THEN Even(segment_id, sz, segment_id * B + B - sz,
                      Locate(st.keys, segment_id * B + B - sz, segment_id * B + B, key))
            ELSE Odd(segment_id, sz, segment_id * B,
                     Locate(st.keys, segment_id * B, segment_id * B + sz, key))
        At(segment_id) == In(segment_id, Rd(st.sizes, segment_id))
    IN At(IndexFind(st, key))

\* BTreePMACC7::remove: the storage afterwards and the value returned
remove(st, key, fill) ==
    LET Rebalanced(r) ==
            IF r.value # Missing /\ st.number_segments > 1 /\ r.sz < MinimumSize
            THEN [st |-> rebalance(r.st, r.segment_id, NoInsert, fill), value |-> r.value]
            ELSE [st |-> r.st, value |-> r.value]
    IN IF st.cardinality = 0 THEN [st |-> st, value |-> Missing]
       ELSE Rebalanced(RemoveLocal(st, key))

\* BTreePMACC7::find(key)
find(st, key) ==
    IF st.cardinality = 0 THEN Missing
    ELSE LET segment_id == IndexFind(st, key)
             base == segment_id * B
             sz == Rd(st.sizes, segment_id)
             start == IF segment_id % 2 = 0 THEN base + B - sz ELSE base
             stop == IF segment_id % 2 = 0 THEN base + B ELSE base + sz
             i == Locate(st.keys, start, stop, key)
         IN IF i < stop THEN Rd(st.values, i) ELSE Missing


\* ------------------------------------------------------------------ iterator
\* first position in [from, to) whose key is >= key_min, or `to'
RECURSIVE SkipSmaller(_, _, _, _)
SkipSmaller(a, from, to, key_min) ==
    IF from < to /\ Rd(a, from) < key_min THEN SkipSmaller(a, from + 1, to, key_min) ELSE from
\* last position in [stop, from] whose key is <= key_max, or stop - 1
RECURSIVE SkipGreater(_, _, _, _)
SkipGreater(a, from, stop, key_max) ==
    IF from >= stop /\ Rd(a, from) > key_max THEN SkipGreater(a, from - 1, stop, key_max) ELSE from

\* the loop that looks for the start of the interval, shared by the
\* iterator and by sum: from segment_id on, the first key >= key_min.
\* P: segment_id, offset, stop, notfound
RECURSIVE LowerScan(_, _, _)
LowerScan(st, P, key_min) ==
    IF ~(P.notfound /\ P.segment_id < st.number_segments) THEN P
    ELSE LET s == P.segment_id
             stop == IF s % 2 = 0 THEN (s + 1) * B ELSE s * B + Rd(st.sizes, s)
             start == IF s % 2 = 0 THEN stop - Rd(st.sizes, s) ELSE s * B
             offset == SkipSmaller(st.keys, start, stop, key_min)
         IN LowerScan(st, [segment_id |-> IF offset = stop THEN s + 1 ELSE s,
                           offset |-> offset, stop |-> stop,
                           notfound |-> (offset = stop)], key_min)

\* the loop that looks for the end of the interval: from segment_id down to
\* first_segment, the last key <= key_max.  The scan of an even segment
\* stops one cell before its run.  P: segment_id, offset, notfound, ran
RECURSIVE UpperScan(_, _, _, _)
UpperScan(st, P, first_segment, key_max) ==
    IF ~(P.notfound /\ P.segment_id >= first_segment) THEN P
    ELSE LET s == P.segment_id
             start == IF s % 2 = 0 THEN (s + 1) * B - 1 ELSE s * B + Rd(st.sizes, s) - 1
             stop == IF s % 2 = 0 THEN start - Rd(st.sizes, s) ELSE s * B
             offset == SkipGreater(st.keys, start, stop, key_max)
         IN UpperScan(st, [segment_id |-> IF offset < stop THEN s - 1 ELSE s,
                           offset |-> offset, notfound |-> (offset < stop), ran |-> TRUE],
                      first_segment, key_max)

\* an iterator that yields nothing
EmptyIterator == [offset |-> 0, stop |-> 0, next_segment |-> 0, index_max |-> 0,
                  thrown |-> FALSE]

\* Iterator::Iterator(storage, segment_start, segment_end, key_min, key_max)
IteratorNew(st, segment_start, segment_end, key_min, key_max) ==
    IF segment_start > segment_end THEN [EmptyIterator EXCEPT !.thrown = TRUE]
    ELSE IF segment_end >= st.number_segments THEN EmptyIterator
    ELSE LET lo == LowerScan(st, [segment_id |-> segment_start, offset |-> -1,
                                  stop |-> -1, notfound |-> TRUE], key_min)
             even == lo.segment_id % 2 = 0
             pair == even /\ lo.segment_id + 1 < st.number_segments
             m_stop == IF pair THEN (lo.segment_id + 1) * B + Rd(st.sizes, lo.segment_id + 1)
                       ELSE lo.stop
             m_next == IF pair THEN lo.segment_id + 2 ELSE lo.segment_id + 1
             hi == UpperScan(st, [segment_id |-> segment_end, offset |-> lo.offset,
                                  notfound |-> TRUE, ran |-> FALSE],
                             lo.segment_id, key_max)
         IN IF lo.notfound \/ Rd(st.keys, lo.offset) > key_max \/ hi.offset < lo.offset
            THEN [offset |-> lo.offset, stop |-> 0, next_segment |-> m_next,
                  index_max |-> 0, thrown |-> FALSE]
            ELSE [offset |-> lo.offset, stop |-> Min(hi.offset + 1, m_stop),
                  next_segment |-> m_next, index_max |-> hi.offset + 1, thrown |-> FALSE]

\* Iterator::hasNext
hasNext(it) == it.offset < it.stop

\* Iterator::next_sequence
next_sequence(st, it) ==
    LET segment1 == it.next_segment
        segment2 == segment1 + 1
    IN IF ~(segment1 < st.number_segments) THEN it
       ELSE IF segment1 % 2 = 0
       THEN [it EXCEPT
               !.offset = segment1 * B + B - Rd(st.sizes, segment1),
               !.stop = IF segment2 < st.number_segments
                        THEN Min(segment2 * B + Rd(st.sizes, segment2), it.index_max)
                        ELSE Min(segment2 * B, it.index_max),
               !.next_segment = @ + 2]
       ELSE [it EXCEPT
               !.offset = segment1 * B,
               !.stop = Min(it.index_max, segment1 * B + Rd(st.sizes, segment1)),
               !.next_segment = @ + 1]

\* Iterator::next: the pair returned and the iterator afterwards
next(st, it) ==
    LET moved == [it EXCEPT !.offset = @ + 1]
    IN [pair |-> <<Rd(st.keys, it.offset), Rd(st.values, it.offset)>>,
        it |-> IF moved.offset >= moved.stop THEN next_sequence(st, moved) ELSE moved]

\* the pairs an iterator yields until hasNext is false
RECURSIVE Drain(_, _, _)
Drain(st, it, acc) ==
    IF ~hasNext(it) THEN acc
    ELSE LET r == next(st, it) IN Drain(st, r.it, Append(acc, r.pair))

\* a faulty find(min, max), the two segments handed over in the wrong order
range_iterator_swapped(st, key_min, key_max) ==
    IF st.cardinality = 0 THEN EmptyIterator
    ELSE IteratorNew(st, IndexFindLast(st, key_max), IndexFindFirst(st, key_min),
                     key_min, key_max)
\* BTreePMACC7::find(min, max), the range scan
range_iterator(st, key_min, key_max) ==
    IF st.cardinality = 0 THEN EmptyIterator
    ELSE IteratorNew(st, IndexFindFirst(st, key_min), IndexFindLast(st, key_max),
                     key_min, key_max)
\* BTreePMACC7::iterator, the scan of everything
iterator(st) ==
    IF st.cardinality = 0 THEN EmptyIterator
    ELSE IteratorNew(st, 0, st.number_segments - 1, I64Min, I64Max)
\* what range(key_min, key_max) yields
range(st, key_min, key_max) == Drain(st, range_iterator(st, key_min, key_max), <<>>)

\* ----------------------------------------------------------------------- sum
\* SumResult{}
ZeroSum == [num_elements |-> 0, sum_keys |-> 0, sum_values |-> 0,
            first_key |-> 0, last_key |-> 0, undefined |-> FALSE]

\* sum of the cells [from, to) of an array
RECURSIVE CellSum(_, _, _)
CellSum(a, from, to) == IF from >= to THEN 0 ELSE Rd(a, from) + CellSum(a, from + 1, to)

\* BTreePMACC7::sum, the accumulation loop.  A: sum, segment_id, offset, stop
RECURSIVE Accumulate(_, _, _)
Accumulate(st, A, end) ==
    IF ~(A.offset < end) THEN A.sum
    ELSE LET upto == Max(A.offset, A.stop)
             s == A.segment_id + 1 + (IF A.segment_id % 2 = 0 THEN 1 ELSE 0)
             more == s < st.number_segments
             offset == IF more THEN (s + 1) * B - Rd(st.sizes, s) ELSE upto
             stop == IF more THEN Min(end, offset + Rd(st.sizes, s) + Rd(st.sizes, s + 1))
                     ELSE A.stop
             sum == [A.sum EXCEPT
                       !.num_elements = @ + (A.stop - A.offset),
                       !.sum_keys = @ + CellSum(st.keys, A.offset, A.stop),
                       !.sum_values = @ + CellSum(st.values, A.offset, A.stop)]
         IN IF ~more /\ upto < end
            THEN [sum EXCEPT !.undefined = TRUE]
            ELSE Accumulate(st, [sum |-> sum, segment_id |-> s, offset |-> offset,
                                 stop |-> stop], end)

\* BTreePMACC7::sum(min, max)
sum(st, min, max) ==
    IF min > max \/ st.cardinality = 0 THEN ZeroSum
    ELSE LET segment_start == IndexFindFirst(st, min)
             segment_end == IndexFindLast(st, max)
             lo == LowerScan(st, [segment_id |-> segment_start, offset |-> -1,
                                  stop |-> -1, notfound |-> TRUE], min)
             pair == lo.segment_id % 2 = 0 /\ lo.segment_id < st.number_segments - 1
             stop == IF pair THEN (lo.segment_id + 1) * B + Rd(st.sizes, lo.segment_id + 1)
                     ELSE lo.stop
             hi == UpperScan(st, [segment_id |-> segment_end, offset |-> 0,
                                  notfound |-> TRUE, ran |-> FALSE],
                             lo.segment_id, max)
             end == hi.offset + 1
         IN IF segment_end < segment_start THEN ZeroSum
            ELSE IF lo.notfound \/ Rd(st.keys, lo.offset) > max THEN ZeroSum
            ELSE IF ~hi.ran THEN [ZeroSum EXCEPT !.undefined = TRUE]
            ELSE IF end <= lo.offset THEN ZeroSum
            ELSE [Accumulate(st, [sum |-> [ZeroSum EXCEPT !.first_key = Rd(st.keys, lo.offset)],
                                  segment_id |-> lo.segment_id, offset |-> lo.offset,
                                  stop |-> Min(stop, end)], end)
                  EXCEPT !.last_key = Rd(st.keys, end - 1)]

\* ----------------------------------------------------------------- bulk load
\* element i (from 0) of a batch, a sequence of <<key, value>> pairs
KeyAt(A, i) == A[i + 1][1]
ValueAt(A, i) == A[i + 1][2]
\* the batch elements [start, start + n)
Slice(A, start, n) == SubSeq(A, start + 1, start + n)

\* BlkRunInfo::BlkRunInfo(array_index, segment_id)
BlkRunInfo(array_index, segment_id) ==
    [run_start |-> array_index, run_length |-> 1, cardinality |-> 0,
     window_start |-> segment_id, window_length |-> 1, valid |-> TRUE]

\* a faulty end of run: every run is cut after its first element
RunEndAtOnce(A, i, max) == i
\* first index from i on whose key is greater than max, or the batch length
RECURSIVE RunEnd(_, _, _)
RunEnd(A, i, max) ==
    IF i < Len(A) /\ KeyAt(A, i) <= max THEN RunEnd(A, i + 1, max) ELSE i

\* BTreePMACC7::load_generate_runs: the batch is cut into runs, one for each
\* segment that receives elements
RECURSIVE load_generate_runs(_, _, _, _)
load_generate_runs(st, A, i, runs) ==
    IF ~(i < Len(A)) THEN runs
    ELSE LET segment_id == IndexFindFirst(st, KeyAt(A, i))
             max == IF segment_id + 1 < st.number_segments
                    THEN get_minimum(st, segment_id + 1) ELSE I64Max
             j == RunEnd(A, i + 1, max)
             entry == [BlkRunInfo(i, segment_id) EXCEPT
                         !.run_length = j - i,
                         !.cardinality = Rd(st.sizes, segment_id) + (j - i)]
         IN load_generate_runs(st, A, j, Append(runs, entry))

\* a faulty look to the right: no run is ever seen there
ValidRightNone(runs, sindex) == [sindex |-> sindex, srun |-> -1]
\* the valid run next to the left of position sindex (from 0, -1 if none)
\* and the last segment of its window
RECURSIVE ValidLeft(_, _)
ValidLeft(runs, sindex) ==
    IF sindex < 0 THEN [sindex |-> sindex, srun |-> -1]
    ELSE IF runs[sindex + 1].valid
    THEN [sindex |-> sindex,
          srun |-> runs[sindex + 1].window_start + runs[sindex + 1].window_length - 1]
    ELSE ValidLeft(runs, sindex - 1)
\* the valid run next to the right and the first segment of its window
RECURSIVE ValidRight(_, _)
ValidRight(runs, sindex) ==
    IF ~(sindex < Len(runs)) THEN [sindex |-> sindex, srun |-> -1]
    ELSE IF runs[sindex + 1].valid
    THEN [sindex |-> sindex, srun |-> runs[sindex + 1].window_start]
    ELSE ValidRight(runs, sindex + 1)

\* load_fuse_runs, the scan to the left of the window: segments add their
\* cardinality, a run met on the way is absorbed by run i.
\* F: runs, i, num_elements, windex_left, windex_right, sl, sr (ValidLeft /
\* ValidRight results)
RECURSIVE FuseLeft(_, _, _)
FuseLeft(st, F, window_start) ==
    IF ~(F.windex_left >= window_start) THEN F
    ELSE IF F.windex_left = F.sl.srun
    THEN LET other == F.runs[F.sl.sindex + 1]
         IN FuseLeft(st,
              [F EXCEPT
                 !.num_elements = @ + other.cardinality,
                 !.runs = [@ EXCEPT ![F.i + 1].run_start = other.run_start,
                                    ![F.i + 1].run_length = @ + other.run_length,
                                    ![F.sl.sindex + 1].valid = FALSE],
                 !.windex_left = other.window_start - 1,
                 !.sl = ValidLeft([F.runs EXCEPT ![F.sl.sindex + 1].valid = FALSE],
                                  F.sl.sindex - 1)],
              window_start)
    ELSE FuseLeft(st, [F EXCEPT !.num_elements = @ + Rd(st.sizes, F.windex_left),
                                !.windex_left = @ - 1], window_start)

\* load_fuse_runs, the scan to the right of the window
RECURSIVE FuseRight(_, _, _)
FuseRight(st, F, window_end) ==
    IF ~(F.windex_right < window_end) THEN F
    ELSE IF F.windex_right = F.sr.srun
    THEN LET other == F.runs[F.sr.sindex + 1]
         IN FuseRight(st,
              [F EXCEPT
                 !.num_elements = @ + other.cardinality,
                 !.runs = [@ EXCEPT ![F.i + 1].run_length = @ + other.run_length,
                                    ![F.sr.sindex + 1].valid = FALSE],
                 !.windex_right = other.window_start + other.window_length,
                 !.sr = ValidRight([F.runs EXCEPT ![F.sr.sindex + 1].valid = FALSE],
                                   F.sr.sindex + 1)],
              window_end)
    ELSE FuseRight(st, [F EXCEPT !.num_elements = @ + Rd(st.sizes, F.windex_right),
                                 !.windex_right = @ + 1], window_end)

\* load_fuse_runs, the climb of run i up the calibrator tree from height h
RECURSIVE FuseClimb(_, _, _, _)
FuseClimb(st, F, segment_id, h) ==
    LET w == 2 ^ (h - 1)
        ws == (segment_id \div w) * w
        G == FuseRight(st, FuseLeft(st, F, ws), ws + w)
        out == DensityAboveTheta(G.num_elements, w, h, st.height)
    IN IF out /\ h < st.height
       THEN FuseClimb(st, G, segment_id, h + 1)
       ELSE [runs |-> [G.runs EXCEPT ![F.i + 1].window_start = ws,
                                     ![F.i + 1].window_length = w,
                                     ![F.i + 1].cardinality = G.num_elements],
             window_length |-> w, out |-> out]

\* BTreePMACC7::load_fuse_runs: every valid run takes the smallest window
\* of the calibrator tree whose density stays within the upper bound, the
\* runs that fall in the window are absorbed; resize is TRUE when the
\* window is the whole array and still too dense
RECURSIVE load_fuse_runs(_, _, _)
load_fuse_runs(st, runs, i) ==
    IF ~(i < Len(runs)) THEN [runs |-> runs, resize |-> FALSE]
    ELSE IF ~runs[i + 1].valid THEN load_fuse_runs(st, runs, i + 1)
    ELSE LET run == runs[i + 1]
             segment_id == run.window_start
             dense == run.cardinality * 100 > ThetaLeaves * B
             r == IF st.height > 1 /\ dense
                  THEN FuseClimb(st,
                         [runs |-> runs, i |-> i, num_elements |-> run.cardinality,
                          windex_left |-> segment_id - 1, windex_right |-> segment_id + 1,
                          sl |-> ValidLeft(runs, i - 1), sr |-> ValidRight(runs, i + 1)],
                         segment_id, 2)
                  ELSE [runs |-> runs, window_length |-> 1, out |-> dense]
         IN IF r.window_length = st.number_segments /\ r.out
            THEN [runs |-> r.runs, resize |-> TRUE]
            ELSE load_fuse_runs(st, r.runs, i + 1)

\* BTreePMACC7::load_merge_single, the merge loops: the cells from ocur to
\* oend take the saved content of the segment (ik, iv, n cells) merged with
\* the batch slice.  M: st, ocur, icur, scur
RECURSIVE MergeSingle(_, _, _, _, _, _)
MergeSingle(M, ik, iv, n, seq, oend) ==
    IF ~(M.ocur < oend) THEN M.st
    ELSE IF M.icur < n /\ M.scur < Len(seq)
    THEN LET batch == KeyAt(seq, M.scur) < Rd(ik, M.icur)
         IN MergeSingle(
              [M EXCEPT
                 !.st.keys = Wr(@, M.ocur, IF batch THEN KeyAt(seq, M.scur) ELSE Rd(ik, M.icur)),
                 !.st.values = Wr(@, M.ocur, IF batch THEN ValueAt(seq, M.scur) ELSE Rd(iv, M.icur)),
                 !.scur = IF batch THEN @ + 1 ELSE @,
                 !.icur = IF batch THEN @ ELSE @ + 1,
                 !.ocur = @ + 1],
              ik, iv, n, seq, oend)
    ELSE IF M.icur < n
    THEN [M.st EXCEPT !.keys = Copy(@, M.ocur, ik, M.icur, oend - M.ocur),
                      !.values = Copy(@, M.ocur, iv, M.icur, oend - M.ocur)]
    ELSE IF M.scur < Len(seq)
    THEN MergeSingle(
              [M EXCEPT
                 !.st.keys = Wr(@, M.ocur, KeyAt(seq, M.scur)),
                 !.st.values = Wr(@, M.ocur, ValueAt(seq, M.scur)),
                 !.scur = @ + 1,
                 !.ocur = @ + 1],
              ik, iv, n, seq, oend)
    ELSE M.st

\* the cells [from, from + n) of an array as an array of its own
Saved(a, from, n) == [i \in 0..(n - 1) |-> Rd(a, from + i)]

\* BTreePMACC7::load_merge_single: a batch slice is merged into one segment
load_merge_single(st, segment_id, seq, run_cardinality) ==
    LET base == segment_id * B
        input_size == Rd(st.sizes, segment_id)
        start == IF segment_id % 2 = 0 THEN B - input_size ELSE 0
        ik == Saved(st.keys, base + start, input_size)
        iv == Saved(st.values, base + start, input_size)
        output_start == IF segment_id % 2 = 0 THEN B - run_cardinality ELSE 0
        output_end == IF segment_id % 2 = 0 THEN B ELSE run_cardinality
        Separated(merged) ==
            [SetSeparator(merged, segment_id, Rd(merged.keys, base + output_start))
             EXCEPT !.sizes = Wr(@, segment_id, run_cardinality),
                    !.cardinality = @ + Len(seq)]
    IN Separated(MergeSingle([st |-> st, ocur |-> base + output_start, icur |-> 0, scur |-> 0],
                             ik, iv, input_size, seq, base + output_end))

\* BTreePMACC7::load_merge_multi, step 1, first loop: the elements of the
\* window go to chunk 2 from its end, pair after pair from the right, until
\* it is full.  L: st, c2k, c2v, seg, ostart, ocur (relative to the window),
\* left
RECURSIVE MergeMultiToChunk2(_, _)
MergeMultiToChunk2(L, ws) ==
    IF ~(L.seg >= 0 /\ L.left > 0) THEN L
    ELSE LET off == ws * B
             n == Min(L.left, L.ocur - L.ostart)
             cur == L.ocur - n
             seg == IF cur <= L.ostart THEN L.seg - 2 ELSE L.seg
             fetch == cur <= L.ostart /\ seg >= 0
             ostart == IF fetch THEN PairStart(L.st, ws, seg) ELSE L.ostart
         IN MergeMultiToChunk2(
              [L EXCEPT
                 !.c2k = Copy(@, L.left - n, L.st.keys, off + L.ocur - n, n),
                 !.c2v = Copy(@, L.left - n, L.st.values, off + L.ocur - n, n),
                 !.left = @ - n,
                 !.seg = seg,
                 !.ostart = ostart,
                 !.ocur = IF fetch THEN ostart + PairLength(L.st, ws, seg) ELSE cur],
              ws)

\* load_merge_multi, step 1, second loop: what is left of the window moves
\* to its right end (chunk 1).  L as above with c1cur, the start of chunk 1
RECURSIVE MergeMultiToChunk1(_, _)
MergeMultiToChunk1(L, ws) ==
    IF ~(L.seg >= 0) THEN L
    ELSE LET off == ws * B
             n == L.ocur - L.ostart
             cur == L.ocur - n
             seg == L.seg - 2
             fetch == seg >= 0
             ostart == IF fetch THEN PairStart(L.st, ws, seg) ELSE L.ostart
         IN MergeMultiToChunk1(
              [L EXCEPT
                 !.st.trap = IF Overlap(off + L.c1cur - n, off + L.ocur - n, n) /\ @ = ""
                             THEN "memcpy_overlap" ELSE @,
                 !.st.keys = Copy(@, off + L.c1cur - n, @, off + L.ocur - n, n),
                 !.st.values = Copy(@, off + L.c1cur - n, @, off + L.ocur - n, n),
                 !.c1cur = @ - n,
                 !.seg = seg,
                 !.ostart = ostart,
                 !.ocur = IF fetch THEN ostart + PairLength(L.st, ws, seg) ELSE cur],
              ws)

\* load_merge_multi, step 4, the three loops that fill one pair of
\* segments.  L: st, c2k, c2v, in1, ibase, isize, icur, c2base, c2size,
\* scur, ocur
RECURSIVE MergeMultiFillPair(_, _, _)
MergeMultiFillPair(L, seq, oend) ==
    IF ~(L.ocur < oend) THEN L
    ELSE LET srck == IF L.in1 THEN L.st.keys ELSE L.c2k
             srcv == IF L.in1 THEN L.st.values ELSE L.c2v
             has_input == L.icur < L.isize
             has_batch == L.scur < Len(seq)
             pma == has_input /\ (~has_batch \/ Rd(srck, L.ibase + L.icur) <= KeyAt(seq, L.scur))
             n == IF has_batch THEN 1 ELSE Min(oend - L.ocur, L.isize - L.icur)
             switch == (L.icur + n = L.isize) /\ L.in1
         IN IF ~has_input /\ ~has_batch THEN L
            ELSE IF pma
            THEN MergeMultiFillPair(
                   [L EXCEPT
                      !.st.trap = IF L.in1 /\ ~has_batch /\ Overlap(L.ocur, L.ibase + L.icur, n)
                                     /\ @ = ""
                                  THEN "memcpy_overlap" ELSE @,
                      !.st.keys = Copy(@, L.ocur, srck, L.ibase + L.icur, n),
                      !.st.values = Copy(@, L.ocur, srcv, L.ibase + L.icur, n),
                      !.ocur = @ + n,
                      !.icur = IF switch THEN 0 ELSE @ + n,
                      !.in1 = IF switch THEN FALSE ELSE @,
                      !.ibase = IF switch THEN L.c2base ELSE @,
                      !.isize = IF switch THEN L.c2size ELSE @],
                   seq, oend)
            ELSE MergeMultiFillPair(
                   [L EXCEPT
                      !.st.keys = Wr(@, L.ocur, KeyAt(seq, L.scur)),
                      !.st.values = Wr(@, L.ocur, ValueAt(seq, L.scur)),
                      !.ocur = @ + 1,
                      !.scur = @ + 1],
                   seq, oend)

\* load_merge_multi, step 4: pair after pair, left to right
RECURSIVE MergeMultiFill(_, _, _, _, _)
MergeMultiFill(L, ws, w, seq, i) ==
    IF ~(i < w) THEN L
    ELSE LET off == ws * B
             ostart == off + PairStart(L.st, ws, i)
             oend == ostart + PairLength(L.st, ws, i)
             Separated(M) ==
                 [M EXCEPT !.st = SetSeparator(
                                    SetSeparator(@, ws + i, Rd(@.keys, ostart)),
                                    ws + i + 1, Rd(@.keys, ostart + Rd(@.sizes, ws + i)))]
         IN MergeMultiFill(Separated(MergeMultiFillPair([L EXCEPT !.ocur = ostart], seq, oend)),
                           ws, w, seq, i + 2)

\* BTreePMACC7::load_merge_multi: a batch slice is merged into a window of
\* several segments with the two-chunk protocol
load_merge_multi(st, ws, w, seq, run_cardinality, fill) ==
    LET capacity2 == (B + (w \div ((run_cardinality \div w) + 1))) * 2
        ostart0 == PairStart(st, ws, w - 2)
        \* steps 2 to 4, from the chunks L1 and L2 of step 1
        Fill(L1, L2) ==
            LET c2size == capacity2 - L1.left
                c1size == w * B - L2.c1cur
            IN [MergeMultiFill(
                  [st |-> [L2.st EXCEPT !.sizes = SetWindowSizes(@, ws, w, run_cardinality)],
                   c2k |-> L1.c2k, c2v |-> L1.c2v,
                   in1 |-> c1size > 0,
                   ibase |-> IF c1size > 0 THEN ws * B + L2.c1cur ELSE L1.left,
                   isize |-> IF c1size > 0 THEN c1size ELSE c2size,
                   icur |-> 0, c2base |-> L1.left, c2size |-> c2size,
                   scur |-> 0, ocur |-> 0],
                  ws, w, seq, 0).st
                EXCEPT !.cardinality = @ + Len(seq)]
        Chunk1(L1) ==
            Fill(L1, MergeMultiToChunk1(
                       [st |-> L1.st, seg |-> L1.seg, ostart |-> L1.ostart, ocur |-> L1.ocur,
                        c1cur |-> w * B],
                       ws))
    IN Chunk1(MergeMultiToChunk2(
                [st |-> st, c2k |-> NewArray(capacity2, fill), c2v |-> NewArray(capacity2, fill),
                 seg |-> w - 2, ostart |-> ostart0,
                 ocur |-> ostart0 + PairLength(st, ws, w - 2), left |-> capacity2],
                ws))

\* SpreadWithRewiringBulkLoading::spread_elements, the three loops that fill
\* one output pair backwards from its cell k.  L: st, bk, bv, tobuf, dbase,
\* iseg, ibase, iidx (input 1: the pair read in the array, the offset of its
\* run, the next cell of it), sidx (input 2: the next batch element)
RECURSIVE BulkSpreadPair(_, _, _, _, _)
BulkSpreadPair(L, ws, seq, odisp, k) ==
    IF ~(k >= 0) \/ (L.iidx < 0 /\ L.sidx < 0) THEN L
    ELSE LET pma == L.iidx >= 0
                    /\ (L.sidx < 0 \/ Rd(L.st.keys, L.ibase + L.iidx) > KeyAt(seq, L.sidx))
             key == IF pma THEN Rd(L.st.keys, L.ibase + L.iidx) ELSE KeyAt(seq, L.sidx)
             value == IF pma THEN Rd(L.st.values, L.ibase + L.iidx) ELSE ValueAt(seq, L.sidx)
             d == L.dbase + odisp + k
             fetch == pma /\ L.iidx - 1 < 0 /\ L.iseg > ws
             nseg == L.iseg - 2
         IN BulkSpreadPair(
              [L EXCEPT
                 !.st.keys = IF L.tobuf THEN @ ELSE Wr(@, d, key),
                 !.st.values = IF L.tobuf THEN @ ELSE Wr(@, d, value),
                 !.bk = IF L.tobuf THEN Wr(@, d, key) ELSE @,
                 !.bv = IF L.tobuf THEN Wr(@, d, value) ELSE @,
                 !.sidx = IF pma THEN @ ELSE @ - 1,
                 !.iseg = IF fetch THEN nseg ELSE @,
                 !.ibase = IF fetch THEN nseg * B + B - Rd(L.st.sizes, nseg) ELSE @,
                 !.iidx = IF fetch THEN Rd(L.st.sizes, nseg) + Rd(L.st.sizes, nseg + 1) - 1
                          ELSE IF pma THEN @ - 1 ELSE @],
              ws, seq, odisp, k - 1)

\* SpreadWithRewiringBulkLoading::spread_elements, the loop over the output
\* pairs of the extent, from the last pair to the first
RECURSIVE BulkSpreadPairs(_, _, _, _, _, _)
BulkSpreadPairs(L, ws, seq, oseg, eps, odd) ==
    IF ~(oseg >= 0) THEN L
    ELSE LET lhs == eps + (IF oseg < odd THEN 1 ELSE 0)
             rhs == eps + (IF oseg + 1 < odd THEN 1 ELSE 0)
         IN BulkSpreadPairs(BulkSpreadPair(L, ws, seq, oseg * B + (B - lhs), lhs + rhs - 1),
                            ws, seq, oseg - 2, eps, odd)

\* SpreadWithRewiringBulkLoading::spread_elements.  R: st, position, queue,
\* sidx.  Once the array is depleted the position is -1 and the segment of
\* input 1 is computed in unsigned arithmetic: the read of its size is far
\* outside the array
BulkSpreadElements(R, ws, seq, tobuf, extent_id, num_elements, fill) ==
    LET st == R.st
        iseg == CDiv(R.position - 1, 2 * B) * 2
        inside == iseg >= ws
        idisp == iseg * B + B - Rd(st.sizes, iseg)
        Result(L) ==
            [st |-> L.st,
             position |-> IF L.iidx >= 0 THEN L.ibase + L.iidx + 1 ELSE -1,
             queue |-> IF tobuf
                       THEN Append(R.queue, [extent_id |-> extent_id, bk |-> L.bk, bv |-> L.bv])
                       ELSE R.queue,
             sidx |-> L.sidx]
    IN IF R.position < 0 THEN [R EXCEPT !.st = Trap(@, "out_of_bounds")]
       ELSE Result(BulkSpreadPairs(
               [st |-> st, bk |-> NewArray(st.spe * B, fill), bv |-> NewArray(st.spe * B, fill),
                tobuf |-> tobuf,
                dbase |-> IF tobuf THEN 0 ELSE get_offset(st, ws, extent_id),
                iseg |-> iseg,
                ibase |-> IF inside THEN idisp ELSE 0,
                iidx |-> IF inside THEN R.position - idisp - 1 ELSE -1,
                sidx |-> R.sidx],
               ws, seq, st.spe - 2, num_elements \div st.spe, num_elements % st.spe))

\* SpreadWithRewiringBulkLoading::spread_extent
BulkSpreadExtent(R, ws, seq, extent_id, num_elements, fill) ==
    LET use_rewiring == get_current_extent(R.st, ws, R.position) >= extent_id
        Reclaimed(R1) ==
            IF R1.st.trap = "out_of_bounds" THEN R1 ELSE reclaim_past_extents(R1, ws)
    IN Reclaimed(BulkSpreadElements(
                   IF use_rewiring THEN [R EXCEPT !.st.used_buffers = @ + 1] ELSE R,
                   ws, seq, use_rewiring, extent_id, num_elements, fill))

\* SpreadWithRewiringBulkLoading::spread_window, extents i, i - 1, .. 0
RECURSIVE BulkSpreadExtents(_, _, _, _, _, _, _)
BulkSpreadExtents(R, ws, seq, i, epe, odd, fill) ==
    IF ~(i >= 0) \/ R.st.trap = "out_of_bounds" THEN R
    ELSE BulkSpreadExtents(
           BulkSpreadExtent(R, ws, seq, i, epe + (IF i < odd THEN 1 ELSE 0), fill),
           ws, seq, i - 1, epe, odd, fill)

\* SpreadWithRewiringBulkLoading::update_index
RECURSIVE BulkUpdateIndex(_, _, _)
BulkUpdateIndex(st, s, end) ==
    IF ~(s < end) THEN st
    ELSE BulkUpdateIndex(SetSeparator(st, s, get_minimum(st, s)), s + 1, end)

\* SpreadWithRewiringBulkLoading::execute on the window [ws, ws + w) that
\* will hold n elements, the array read backwards from `position'
SpreadWithRewiringBulkLoading(st, ws, w, n, position, seq, fill) ==
    LET num_extents == w \div st.spe
        Indexed(R) ==
            IF R.st.trap = "out_of_bounds" THEN R.st
            ELSE BulkUpdateIndex(update_segment_sizes(R.st, ws, w, n), ws, ws + w)
    IN Indexed(BulkSpreadExtents(
                 [st |-> st, position |-> position, queue |-> <<>>, sidx |-> Len(seq) - 1],
                 ws, seq, num_extents - 1, n \div num_extents, n % num_extents, fill))

\* PMA::extend: the arrays grow in place by `add' segments
extend(st, add, fill) ==
    LET n == st.number_segments + add
    IN [st EXCEPT
          !.keys = [i \in 0..(n * B - 1) |-> IF i \in DOMAIN st.keys THEN st.keys[i] ELSE fill],
          !.values = [i \in 0..(n * B - 1) |-> IF i \in DOMAIN st.values THEN st.values[i] ELSE fill],
          !.sizes = [i \in 0..(Max(2, n) - 1) |-> IF i \in DOMAIN st.sizes THEN st.sizes[i] ELSE fill],
          !.number_segments = n,
          !.capacity = n * B,
          !.height = Log2(n) + 1]

\* a faulty capacity: the smallest power of two that holds the elements
LoadCapacityFull(n) == hyperceil(n)
\* the capacity a resize on load picks: hyperceil(ceil(cardinality / 0.75))
LoadCapacity(n) == hyperceil((n * 100 + ThetaRoot - 1) \div ThetaRoot)

\* BTreePMACC7::load_resize_rewire
load_resize_rewire(st, batch, fill) ==
    LET num_segments_before == st.number_segments
        total == st.cardinality + Len(batch)
        num_segments_after == LoadCapacity(total) \div B
        ext == IndexRebuild(extend(st, num_segments_after - num_segments_before, fill),
                            num_segments_after)
        Counted(done) == IF done.trap = "out_of_bounds" THEN done
                         ELSE [done EXCEPT !.cardinality = @ + Len(batch)]
        Spread(resized) ==
            Counted(SpreadWithRewiringBulkLoading(
                      resized, 0, num_segments_after, total,
                      (num_segments_before - 1) * B + Rd(resized.sizes, num_segments_before - 1),
                      batch, fill))
    IN Spread(ext)

\* BTreePMACC7::load_resize_general, the three loops that fill one output
\* pair.  L: st (the new workspace), ixk, ixv, ixs (the old arrays), nold,
\* iseg, icur, iend (input cursor in the old arrays), bcur, ocur
RECURSIVE LoadResizePair(_, _, _)
LoadResizePair(L, batch, oend) ==
    IF ~(L.ocur < oend) THEN L
    ELSE LET has_input == L.icur < L.iend
             has_batch == L.bcur < Len(batch)
             pma == has_input /\ (~has_batch \/ Rd(L.ixk, L.icur) < KeyAt(batch, L.bcur))
             n == IF has_batch THEN 1 ELSE Min(oend - L.ocur, L.iend - L.icur)
             wrap == L.icur + n >= L.iend
             nseg == L.iseg + 2
             fetch == wrap /\ nseg < L.nold
             ncur == B * (nseg + 1) - Rd(L.ixs, nseg)
         IN IF ~has_input /\ ~has_batch THEN L
            ELSE IF pma
            THEN LoadResizePair(
                   [L EXCEPT
                      !.st.keys = Copy(@, L.ocur, L.ixk, L.icur, n),
                      !.st.values = Copy(@, L.ocur, L.ixv, L.icur, n),
                      !.ocur = @ + n,
                      !.iseg = IF wrap THEN nseg ELSE @,
                      !.icur = IF fetch THEN ncur ELSE @ + n,
                      !.iend = IF fetch THEN ncur + Rd(L.ixs, nseg) + Rd(L.ixs, nseg + 1) ELSE @],
                   batch, oend)
            ELSE LoadResizePair(
                   [L EXCEPT
                      !.st.keys = Wr(@, L.ocur, KeyAt(batch, L.bcur)),
                      !.st.values = Wr(@, L.ocur, ValueAt(batch, L.bcur)),
                      !.ocur = @ + 1,
                      !.bcur = @ + 1],
                   batch, oend)

\* BTreePMACC7::load_resize_general, the loop over the output pairs
RECURSIVE LoadResizeFill(_, _, _, _, _, _)
LoadResizeFill(L, batch, j, num_segments, eps, odd) ==
    IF ~(j < num_segments) THEN L.st
    ELSE LET lhs == eps + (IF j < odd THEN 1 ELSE 0)
             rhs == eps + (IF j + 1 < odd THEN 1 ELSE 0)
             ostart == B * (j + 1) - lhs
             sized == [L.st EXCEPT !.sizes = Wr(Wr(@, j, lhs), j + 1, rhs)]
             Separated(M) ==
                 [M EXCEPT !.st = SetSeparator(SetSeparator(@, j, Rd(@.keys, ostart)),
                                               j + 1, Rd(@.keys, ostart + lhs))]
         IN LoadResizeFill(
              Separated(LoadResizePair([L EXCEPT !.st = sized, !.ocur = ostart],
                                       batch, ostart + lhs + rhs)),
              batch, j + 2, num_segments, eps, odd)

\* BTreePMACC7::load_resize_general
load_resize_general(st, batch, fill) ==
    LET total == st.cardinality + Len(batch)
        new_capacity == LoadCapacity(total)
        num_segments == new_capacity \div B
        ws == IndexRebuild(AllocWorkspace(st, num_segments, fill), num_segments)
        filled == LoadResizeFill(
                    [st |-> ws, ixk |-> st.keys, ixv |-> st.values, ixs |-> st.sizes,
                     nold |-> st.number_segments, iseg |-> 0,
                     icur |-> B - Rd(st.sizes, 0), iend |-> B + Rd(st.sizes, 1),
                     bcur |-> 0, ocur |-> 0],
                    batch, 0, num_segments, total \div num_segments,
                    total % num_segments)
    IN IF st.no_memory THEN AllocWorkspaceFailed(st)
       ELSE [filled EXCEPT !.cardinality = total,
                           !.capacity = new_capacity,
                           !.number_segments = num_segments,
                           !.height = Log2(num_segments) + 1]

\* BTreePMACC7::load_resize
load_resize(st, batch, fill) ==
    IF st.rewired /\ st.number_segments >= st.spe
    THEN load_resize_rewire(st, batch, fill)
    ELSE load_resize_general(st, batch, fill)

\* a faulty load_empty_single, the batch packed at the left end of segment 0
load_empty_single_left(st, array) ==
    LET n == Len(array)
    IN [SetSeparator(st, 0, KeyAt(array, 0)) EXCEPT
          !.keys = [i \in DOMAIN @ |-> IF i < n THEN KeyAt(array, i) ELSE @[i]],
          !.values = [i \in DOMAIN @ |-> IF i < n THEN ValueAt(array, i) ELSE @[i]],
          !.sizes = Wr(@, 0, n),
          !.cardinality = n]
\* BTreePMACC7::load_empty_single
load_empty_single(st, array) ==
    LET n == Len(array)
        output_start == B - n
    IN [SetSeparator(st, 0, KeyAt(array, 0)) EXCEPT
          !.keys = [i \in DOMAIN @ |-> IF i >= output_start /\ i < B
                                       THEN KeyAt(array, i - output_start) ELSE @[i]],
          !.values = [i \in DOMAIN @ |-> IF i >= output_start /\ i < B
                                         THEN ValueAt(array, i - output_start) ELSE @[i]],
          !.sizes = Wr(@, 0, n),
          !.cardinality = n]

\* BTreePMACC7::load_empty_multi, the copy loop.  L: st, acur
RECURSIVE LoadEmptyFill(_, _, _, _)
LoadEmptyFill(L, array, i, num_segments) ==
    IF ~(i < num_segments) THEN L.st
    ELSE LET lhs == Rd(L.st.sizes, i)
             n == lhs + Rd(L.st.sizes, i + 1)
             ostart == (i + 1) * B - lhs
             st1 == [L.st EXCEPT
                       !.keys = [c \in DOMAIN @ |-> IF c >= ostart /\ c < ostart + n
                                                    THEN KeyAt(array, L.acur + c - ostart) ELSE @[c]],
                       !.values = [c \in DOMAIN @ |-> IF c >= ostart /\ c < ostart + n
                                                      THEN ValueAt(array, L.acur + c - ostart) ELSE @[c]]]
             s1 == SetSeparator(st1, i, Rd(st1.keys, ostart))
             s2 == SetSeparator(s1, i + 1, Rd(st1.keys, ostart + lhs))
         IN LoadEmptyFill([st |-> s2, acur |-> L.acur + n], array, i + 2, num_segments)

\* BTreePMACC7::load_empty_multi: the target density is the mean of the
\* upper thresholds of the root and of the leaves
load_empty_multi(st, array, fill) ==
    LET n == Len(array)
        target == ThetaRoot + ThetaLeaves
        new_capacity == hyperceil((n * 200 + target - 1) \div target)
        num_segments == new_capacity \div B
        ws == AllocWorkspace(IndexRebuild(st, num_segments), num_segments, fill)
        sized == [ws EXCEPT !.sizes = SetWindowSizes(@, 0, num_segments, n)]
        filled == LoadEmptyFill([st |-> sized, acur |-> 0], array, 0, num_segments)
    IN IF st.no_memory THEN WorkspaceLost(IndexRebuild(st, num_segments), fill)
       ELSE [filled EXCEPT !.cardinality = n,
                           !.capacity = new_capacity,
                           !.number_segments = num_segments,
                           !.height = Log2(num_segments) + 1]

\* BTreePMACC7::load_empty
load_empty(st, array, fill) ==
    IF B * ThetaLeaves >= Len(array) * 100
    THEN load_empty_single(st, array)
    ELSE load_empty_multi(st, array, fill)

\* BTreePMACC7::load_spread, runs i, i + 1, ..
RECURSIVE load_spread(_, _, _, _, _)
load_spread(st, array, runs, i, fill) ==
    IF ~(i < Len(runs)) THEN st
    ELSE IF ~runs[i + 1].valid THEN load_spread(st, array, runs, i + 1, fill)
    ELSE LET entry == runs[i + 1]
             seq == Slice(array, entry.run_start, entry.run_length)
             Counted(done) == IF done.trap = "out_of_bounds" THEN done
                              ELSE [done EXCEPT !.cardinality = @ + entry.run_length]
             Continue(st1) == IF st1.trap = "out_of_bounds" THEN st1
                              ELSE load_spread(st1, array, runs, i + 1, fill)
         IN Continue(
              IF entry.window_length = 1
              THEN IF entry.run_length = 1
                   THEN IF st.cardinality = 0
                        THEN insert_empty(st, KeyAt(seq, 0), ValueAt(seq, 0))
                        ELSE insert_common(st, entry.window_start,
                                           KeyAt(seq, 0), ValueAt(seq, 0), fill)
                   ELSE load_merge_single(st, entry.window_start, seq, entry.cardinality)
              ELSE IF st.rewired /\ entry.window_length >= st.spe
              THEN Counted(SpreadWithRewiringBulkLoading(
                             st, entry.window_start, entry.window_length,
                             entry.cardinality,
                             WindowEndPosition(st, entry.window_start, entry.window_length),
                             seq, fill))
              ELSE load_merge_multi(st, entry.window_start, entry.window_length, seq,
                                    entry.cardinality, fill))

\* BTreePMACC7::load_sorted
load_sorted(st, array, fill) ==
    IF Len(array) = 0 THEN st
    ELSE IF st.cardinality = 0 THEN load_empty(st, array, fill)
    ELSE LET Apply(fused) == IF fused.resize THEN load_resize(st, array, fill)
                             ELSE load_spread(st, array, fused.runs, 0, fill)
         IN Apply(load_fuse_runs(st, load_generate_runs(st, array, 0, <<>>), 0))

\* --------------------------------------------------------------- transitions
\* the segments-per-extent values of the configurations explored: with 1,
\* 2 and 4 a window of that many segments or more is spread by rewiring
SegmentsPerExtent == {1, 2, 4, NoRewire}

\* what insert(key, ..) is about to do in st
InsertPath(st, key) ==
    IF st.cardinality = 0 THEN "empty"
    ELSE LET segment_id == IndexFind(st, key)
             plan == RebalancePlan(st, segment_id, TRUE)
         IN IF Rd(st.sizes, segment_id) # B THEN "local"
            ELSE IF plan.resize THEN "resize"
            ELSE IF st.rewired /\ plan.window_length >= st.spe THEN "rewired"
            ELSE "two_copies"
\* what remove(key) is about to do in st
RemovePath(st, key) ==
    IF st.cardinality = 0 THEN "empty"
    ELSE LET Planned(plan) ==
                 IF plan.resize THEN "resize"
                 ELSE IF st.rewired /\ plan.window_length >= st.spe THEN "rewired"
                 ELSE "two_copies"
             Of(r) ==
                 IF r.value = Missing THEN "absent"
                 ELSE IF ~(st.number_segments > 1 /\ r.sz < MinimumSize) THEN "local"
                 ELSE Planned(RebalancePlan(r.st, r.segment_id, FALSE))
         IN Of(RemoveLocal(st, key))

\* what load_sorted(array) is about to do in st
LoadPath(st, array) ==
    IF st.cardinality = 0
    THEN IF B * ThetaLeaves >= Len(array) * 100 THEN {"empty_single"} ELSE {"empty_multi"}
    ELSE LET Kind(entry) ==
                 IF entry.window_length = 1
                 THEN IF entry.run_length = 1 THEN "insert" ELSE "merge_single"
                 ELSE IF st.rewired /\ entry.window_length >= st.spe THEN "merge_rewired"
                 ELSE "merge_multi"
             Of(fused) ==
                 IF fused.resize
                 THEN IF st.rewired /\ st.number_segments >= st.spe
                      THEN {"resize_rewire"} ELSE {"resize_general"}
                 ELSE {Kind(fused.runs[i]) :
                         i \in {j \in 1..Len(fused.runs) : fused.runs[j].valid}}
         IN Of(load_fuse_runs(st, load_generate_runs(st, array, 0, <<>>), 0))

\* the windows, as <<first segment, number of segments>>, that insert(key,
\* ..) is about to spread in st
InsertWindows(st, key) ==
    IF InsertPath(st, key) \in {"rewired", "two_copies"}
    THEN LET plan == RebalancePlan(st, IndexFind(st, key), TRUE)
         IN {<<plan.window_start, plan.window_length>>}
    ELSE {}
\* the windows remove(key) is about to spread in st
RemoveWindows(st, key) ==
    IF RemovePath(st, key) \in {"rewired", "two_copies"}
    THEN LET Window(plan) == {<<plan.window_start, plan.window_length>>}
             Of(r) == Window(RebalancePlan(r.st, r.segment_id, FALSE))
         IN Of(RemoveLocal(st, key))
    ELSE {}
\* the windows of more than one segment load_sorted(array) is about to
\* merge the batch into
LoadWindows(st, array) ==
    IF st.cardinality = 0 THEN {}
    ELSE LET Of(fused) ==
                 IF fused.resize THEN {}
                 ELSE {<<fused.runs[j].window_start, fused.runs[j].window_length>> :
                         j \in {i \in 1..Len(fused.runs) :
                                  fused.runs[i].valid /\ fused.runs[i].window_length > 1}}
         IN Of(load_fuse_runs(st, load_generate_runs(st, array, 0, <<>>), 0))

\* the variables take the fields of the storage st
Becomes(st) ==
    /\ keys' = st.keys
    /\ values' = st.values
    /\ sizes' = st.sizes
    /\ sep' = st.sep
    /\ cardinality' = st.cardinality
    /\ capacity' = st.capacity
    /\ number_segments' = st.number_segments
    /\ height' = st.height
    /\ rewired' = st.rewired
    /\ used_buffers' = st.used_buffers
    /\ trap' = st.trap
    /\ spe' = st.spe

\* PMA::PMA: one empty segment, a tree of height 1
Init ==
    /\ spe \in SegmentsPerExtent
    /\ \E fill \in FillValues :
         /\ keys = NewArray(B, fill)
         /\ values = NewArray(B, fill)
         /\ sizes = [NewArray(2, fill) EXCEPT ![1] = 0]
    /\ sep = NewArray(1, I64Min)
    /\ cardinality = 0
    /\ capacity = B
    /\ number_segments = 1
    /\ height = 1
    /\ rewired = (1 >= spe)
    /\ used_buffers = 0
    /\ trap = ""
    /\ stored = {}
    /\ last = [op |-> "new", key |-> 0, ret |-> 0, path |-> {}, windows |-> {},
               batch |-> <<>>]
    /\ nops = 0

\* the keys stored
StoredKeys == {p[1] : p \in stored}

\* insert(key, value) of a key that is not stored; an insertion that would
\* grow the array beyond MaxSegments is left out
Insert ==
    /\ trap = ""
    /\ nops < MaxOps
    /\ \E key \in Keys \ StoredKeys, tag \in Tags, fill \in FillValues :
         LET path == InsertPath(Storage, key)
         IN /\ path = "resize" => 2 * number_segments <= MaxSegments
            /\ Becomes(insert(Storage, key, ValueOf(key, tag), fill))
            /\ stored' = stored \cup {<<key, ValueOf(key, tag)>>}
            /\ last' = [op |-> "insert", key |-> key, ret |-> 0, path |-> {path},
                        windows |-> InsertWindows(Storage, key), batch |-> <<>>]
    /\ nops' = nops + 1

\* the smallest key that is not stored
AbsentKeys == {k \in Keys \ StoredKeys : \A j \in Keys \ StoredKeys : k <= j}

\* remove(key) of a stored key, or of one of AbsentKeys
Remove ==
    /\ trap = ""
    /\ nops < MaxOps
    /\ \E key \in StoredKeys \cup AbsentKeys, fill \in FillValues :
         LET Returns(r) ==
                 /\ Becomes(r.st)
                 /\ last' = [op |-> "remove", key |-> key, ret |-> r.value,
                             path |-> {RemovePath(Storage, key)},
                             windows |-> RemoveWindows(Storage, key), batch |-> <<>>]
         IN /\ Returns(remove(Storage, key, fill))
            /\ stored' = {p \in stored : p[1] # key}
    /\ nops' = nops + 1

\* the keys of S in ascending order, each with its value
RECURSIVE SortedBatch(_, _)
SortedBatch(S, tag) ==
    IF S = {} THEN <<>>
    ELSE LET k == CHOOSE x \in S : \A y \in S : x <= y
         IN <<(<<k, ValueOf(k, tag)>>)>> \o SortedBatch(S \ {k}, tag)

\* the batches load_sorted is called with: the keys not stored of an
\* interval that starts at the smallest key or ends at the largest one,
\* MaxBatch at most
FreeIn(lo, hi) == {k \in Keys \ StoredKeys : lo <= k /\ k <= hi}
Batches == {b \in {FreeIn(1, hi) : hi \in Keys} \cup {FreeIn(lo, MaxKey) : lo \in Keys} :
              b # {} /\ Cardinality(b) <= MaxBatch}

\* load_sorted(array) of a sorted batch of keys that are not stored, among
\* the first MaxLoadOps operations or into an index that is empty; a load
\* that would grow the array beyond MaxSegments is left out
Load ==
    /\ trap = ""
    /\ nops < MaxOps
    /\ nops < MaxLoadOps \/ cardinality = 0
    /\ \E b \in Batches, tag \in Tags, fill \in FillValues :
         LET array == SortedBatch(b, tag)
             Within(st) == st.number_segments <= MaxSegments /\ Becomes(st)
         IN /\ Within(load_sorted(Storage, array, fill))
            /\ stored' = stored \cup {array[i] : i \in 1..Len(array)}
            /\ last' = [op |-> "load", key |-> array[1][1], ret |-> Len(array),
                        path |-> LoadPath(Storage, array),
                        windows |-> LoadWindows(Storage, array), batch |-> array]
    /\ nops' = nops + 1

Next == Insert \/ Remove \/ Load

Spec == Init /\ [][Next]_vars

\* ---------------------------------------------------------------- properties
\* the last operation ran to its end
Completed == trap = "" /\ last.op # "new"
\* the last operation was a remove that found the index empty and returned
\* at once
EmptyRemove == last.op = "remove" /\ last.path = {"empty"}
\* an operation other than that ran to its end: the index holds elements or
\* has held some, so every cardinality m_segment_sizes[0 .. S) was written
Written == Completed /\ ~EmptyRemove

\* BTreePMACC7::dump_storage: first position of the packed range of segment s
PackedStart(st, s) == IF s % 2 = 0 THEN (s + 1) * B - Rd(st.sizes, s) ELSE s * B
\* the pairs of the packed range of segment s, in position order
SegmentPairs(st, s) ==
    [i \in 1..Rd(st.sizes, s) |->
        <<Rd(st.keys, PackedStart(st, s) + i - 1), Rd(st.values, PackedStart(st, s) + i - 1)>>]
\* the pairs of the segments s .. S - 1, in segment order
RECURSIVE EnumerateFrom(_, _)
EnumerateFrom(st, s) ==
    IF s >= st.number_segments THEN <<>>
    ELSE SegmentPairs(st, s) \o EnumerateFrom(st, s + 1)
\* what reading the segments in index order yields
Enumeration == EnumerateFrom(Storage, 0)
\* the sum of the cardinalities of the segments s .. S - 1
RECURSIVE SizesFrom(_, _)
SizesFrom(st, s) ==
    IF s >= st.number_segments THEN 0 ELSE Rd(st.sizes, s) + SizesFrom(st, s + 1)

\* the keys of a sequence of pairs increase strictly
Ascending(q) == \A i \in 1..(Len(q) - 1) : q[i][1] < q[i + 1][1]
\* the pairs of a sequence
PairsOf(q) == {q[i] : i \in 1..Len(q)}
\* the value stored with key k, Missing if none
StoredValue(k) == IF k \in StoredKeys THEN (CHOOSE p \in stored : p[1] = k)[2] ELSE Missing
\* the smallest key in the packed range of segment s
SegmentMinimum(st, s) ==
    LET ks == {SegmentPairs(st, s)[i][1] : i \in 1..Rd(st.sizes, s)}
    IN CHOOSE k \in ks : \A j \in ks : k <= j

\* C1: after any sequence of completed insert, remove and load_sorted calls
\* with distinct keys, reading the segments in index order (even segments
\* from B - seg_size to B - 1, odd segments from 0 to seg_size - 1) yields a
\* strictly increasing key sequence.
C1_SegmentOrderAscending == Written => Ascending(Enumeration)
\* C1 at work: a rewired spread over extents of a single segment completed
C1_RewiredSpreadDone == Written /\ spe = 1 /\ last.path = {"rewired"}

\* C2: after any sequence of completed insert, remove and load_sorted calls
\* the pairs in the packed ranges are exactly the pairs inserted or loaded
\* and not yet removed, none lost, duplicated or altered.
C2_PackedRangesHoldStored ==
    Written => PairsOf(Enumeration) = stored /\ Len(Enumeration) = Cardinality(stored)

\* C3: after any sequence of insert, remove and load_sorted calls find(k)
\* returns v for every stored pair (k, v) and -1 for every key not stored.
C3_FindReturnsStored == trap = "" => \A k \in Keys : find(Storage, k) = StoredValue(k)

C5_SeparatorIsSegmentMinimum ==
    Written => \A s \in 0..(number_segments - 1) :
                  Rd(sizes, s) > 0 => Rd(sep, s) = SegmentMinimum(Storage, s)

\* the pairs of the set S in ascending key order
RECURSIVE SortPairs(_)
SortPairs(S) ==
    IF S = {} THEN <<>>
    ELSE LET p == CHOOSE x \in S : \A y \in S : x[1] <= y[1]
         IN <<p>> \o SortPairs(S \ {p})
\* the stored pairs with lo <= key <= hi, in ascending key order
StoredBetween(lo, hi) == SortPairs({p \in stored : lo <= p[1] /\ p[1] <= hi})
\* the bounds range and sum are called with: every key, one below the
\* smallest and one above the largest
RangeKeys == 0..(MaxKey + 1)

C7_RangeYieldsStoredInterval ==
    trap = "" =>
      \A key_min \in RangeKeys, key_max \in RangeKeys :
         key_min <= key_max
         => /\ ~range_iterator(Storage, key_min, key_max).thrown
            /\ range(Storage, key_min, key_max) = StoredBetween(key_min, key_max)

\* count, sum of keys, sum of values, first and last key of a sequence of
\* pairs, all zero for the empty sequence
RECURSIVE SumOf(_, _)
SumOf(q, c) == IF q = <<>> THEN 0 ELSE q[1][c] + SumOf(Tail(q), c)
Aggregate(q) ==
    IF q = <<>> THEN ZeroSum
    ELSE [num_elements |-> Len(q), sum_keys |-> SumOf(q, 1), sum_values |-> SumOf(q, 2),
          first_key |-> q[1][1], last_key |-> q[Len(q)][1], undefined |-> FALSE]

\* C8: for k_min <= k_max and every reachable state sum(k_min, k_max) returns
\* the count, sum of keys, sum of values, first and last key of the sequence
\* range(k_min, k_max) yields; it returns the all-zero result when
\* k_min > k_max, when the index is empty and when no stored key lies in the
\* interval.
C8_SumAgreesWithRange ==
    trap = "" =>
      \A key_min \in RangeKeys, key_max \in RangeKeys :
         /\ key_min <= key_max
            => sum(Storage, key_min, key_max) = Aggregate(range(Storage, key_min, key_max))
         /\ key_min > key_max \/ cardinality = 0 \/ StoredBetween(key_min, key_max) = <<>>
            => sum(Storage, key_min, key_max) = ZeroSum

\* the calibrator tree: the windows <<first segment, number of segments>> at
\* every height 1 .. H
CalibratorWindows ==
    UNION {{<<ws, 2 ^ (h - 1)>> : ws \in {x \in 0..(number_segments - 1) : x % (2 ^ (h - 1)) = 0}} :
             h \in 1..height}
\* rho_h <= density <= tau_h for the window of w segments from ws on, h its
\* height in a tree of more than one level
WithinBounds(ws, w) ==
    LET h == Log2(w) + 1
        n == WindowSum(sizes, ws, ws + w, -1)
    IN /\ RhoNum(h, height) * w * B <= n * ThresholdDen(height)
       /\ n * ThresholdDen(height) <= ThetaNum(h, height) * w * B
\* some insert or remove called next resizes the array
NextMayResize ==
    \/ \E k \in Keys \ StoredKeys : InsertPath(Storage, k) = "resize"
    \/ \E k \in StoredKeys : RemovePath(Storage, k) = "resize"

\* C9 as stated: after any completed insert, remove or load_sorted every
\* window of the calibrator tree is within the density bounds of its height,
\* but for the root when the next operation will be a resize.
C9_EveryWindowWithinBounds ==
    Written /\ height > 1 =>
      \A c \in CalibratorWindows :
         WithinBounds(c[1], c[2]) \/ (c[2] = number_segments /\ NextMayResize)
\* C9 amended: after a completed insert, remove or load_sorted that spread a
\* window of the calibrator tree (or merged its batch into one of more than
\* one segment), that window is within the density bounds of its height;
\* the windows the operation did not rebalance need not be (a segment fills
\* up to B elements before an insert rebalances it).
C9_SpreadWindowWithinBounds ==
    Written => \A c \in last.windows : WithinBounds(c[1], c[2])
\* C9 at work: a window of the calibrator tree was spread by an insert or a
\* remove in an array of four segments
C9_WindowSpread ==
    /\ Written
    /\ last.op \in {"insert", "remove"}
    /\ last.windows # {}
    /\ number_segments = 4

\* C10: load_sorted(A) of a non-empty sorted batch A of distinct keys on an
\* empty index followed by a full iteration yields the pairs of A in order
\* and leaves cardinality = |A|, when A fits one segment and when a fresh
\* array of several segments is built.
C10_LoadIntoEmptyIteratesBatch ==
    Completed /\ last.op = "load" /\ last.path \cap {"empty_single", "empty_multi"} # {}
    => /\ Drain(Storage, iterator(Storage), <<>>) = last.batch
       /\ cardinality = Len(last.batch)
\* C10 at work: a batch was loaded into a fresh array of four segments
C10_LoadedMultiSegment ==
    /\ Completed
    /\ last.path = {"empty_multi"}
    /\ number_segments = 4
    /\ Drain(Storage, iterator(Storage), <<>>) = last.batch

\* a step of load_sorted on an index that is not empty, run to its end
LoadIntoNonEmpty ==
    /\ nops' = nops + 1
    /\ last'.op = "load"
    /\ cardinality > 0
    /\ trap' = ""

\* C11: load_sorted(batch) on a non-empty index, the batch sorted with
\* distinct keys that are not stored, leaves cardinality = old cardinality
\* + |batch| and a full iteration that yields the sorted merge of the
\* previous content and the batch, on every apply path (single-segment
\* merge, multi-segment merge, rewired merge, resize).
C11_LoadMergesBatch ==
    [][LoadIntoNonEmpty =>
         /\ cardinality' = cardinality + Len(last'.batch)
         /\ Enumeration' = SortPairs(PairsOf(Enumeration) \cup PairsOf(last'.batch))]_vars
\* C11 at work: a batch was merged by rewiring into an index that held
\* elements
C11_RewiredMergeDone ==
    /\ Completed
    /\ last.op = "load"
    /\ last.path \cap {"merge_rewired", "resize_rewire"} # {}

\* the keys the two batches of a split load are drawn from, and the largest
\* number of keys of both together
MaxSplitKey == 8
MaxSplit == 7
\* the pairs of non-empty disjoint sets of keys <<X, Y>>
Splits == {p \in (SUBSET (1..MaxSplitKey)) \X (SUBSET (1..MaxSplitKey)) :
             /\ p[1] # {}
             /\ p[2] # {}
             /\ p[1] \cap p[2] = {}
             /\ Cardinality(p[1] \cup p[2]) <= MaxSplit}
\* the storages s and t yield the same pairs under full iteration and the
\* same result for every find
SameObservation(s, t) ==
    /\ Drain(s, iterator(s), <<>>) = Drain(t, iterator(t), <<>>)
    /\ \A k \in Keys : find(s, k) = find(t, k)
\* from the empty storage st, the load of X and Y merged and the load of X
\* followed by the load of Y, when both run to their end, are observed the
\* same
SplitAgrees(st, X, Y, f1, f2) ==
    LET Compared(one, two) ==
            (one.trap = "" /\ two.trap = "") => SameObservation(one, two)
    IN Compared(load_sorted(st, SortedBatch(X \cup Y, 0), f1),
                load_sorted(load_sorted(st, SortedBatch(X, 0), f2), SortedBatch(Y, 0), f2))

\* C12: for sorted, mutually disjoint batches A and B, the load of their
\* sorted merge in one load_sorted call into an empty index and the load of
\* A then B in two calls yield the same sequence of pairs under full
\* iteration and the same result for every find.
C12_SplitLoadEquivalent ==
    last.op = "new" =>
        \A p \in Splits : \A f1, f2 \in FillValues :
            SplitAgrees(Storage, p[1], p[2], f1, f2)
\* C12 at work: from the new index, the load of {1, 2, 3} then {4} resizes by
\* rewiring and ends with the cardinality of the load of {1, 2, 3, 4}
C12_SplitLoadResizes ==
    /\ last.op = "new"
    /\ LoadPath(load_sorted(Storage, SortedBatch({1, 2, 3}, 0), 0), SortedBatch({4}, 0))
         = {"resize_rewire"}
    /\ load_sorted(load_sorted(Storage, SortedBatch({1, 2, 3}, 0), 0),
                   SortedBatch({4}, 0), 0).cardinality
         = load_sorted(Storage, SortedBatch({1, 2, 3, 4}, 0), 0).cardinality
    /\ ~SplitAgrees(Storage, {1, 2, 3}, {4}, 0, 0)

\* C13: after every insert and every remove the used-buffer count of the
\* rewiring pool is zero: every buffer acquired during a rewired spread was
\* handed to swap_and_release before the spread returned.
C13_NoBufferInUse ==
    (Completed /\ last.op \in {"insert", "remove"}) => used_buffers = 0
\* C13 at work: an insert or a remove spread a window by rewiring
C13_RewiredSpreadReturned ==
    /\ Completed
    /\ last.op \in {"insert", "remove"}
    /\ last.path = {"rewired"}

\* C16: remove(k) and find(k) of a key that is not stored return the
\* missing sentinel -1, and the remove changes nothing: no element moves,
\* the cardinalities of the segments, the cardinality and the separators
\* stay as they are and no rebalance takes place, also on an empty index.
C16_AbsentKeyIsMissing ==
    trap = "" =>
        \A k \in Keys \ StoredKeys :
            /\ find(Storage, k) = Missing
            /\ \A fill \in FillValues :
                 remove(Storage, k, fill) = [st |-> Storage, value |-> Missing]
\* C16 at work: remove(k) of a key that is not stored returned, on an index
\* of several segments that holds elements
C16_AbsentKeyRemoved ==
    /\ Completed
    /\ last.op = "remove"
    /\ last.path = {"absent"}
    /\ last.ret = Missing
    /\ number_segments > 1

PowerOfTwo(n) == n >= 1 /\ hyperceil(n) = n
\* a step of insert or remove that ran to its end
UpdateDone == /\ nops' = nops + 1
              /\ last'.op \in {"insert", "remove"}
              /\ trap' = ""
\* C18: after every completed insert or remove the number of segments is a
\* power of two and at least 1, the capacity is B times the number of
\* segments and the height is log2 of the number of segments plus 1; an
\* insert that ends in a resize doubles the number of segments and a remove
\* that ends in a resize halves it
C18_SegmentsDoubleOrHalve ==
    [][UpdateDone =>
         /\ PowerOfTwo(number_segments')
         /\ capacity' = number_segments' * B
         /\ height' = Log2(number_segments') + 1
         /\ (last'.op = "insert" /\ last'.path = {"resize"})
               => number_segments' = 2 * number_segments
         /\ (last'.op = "remove" /\ last'.path = {"resize"})
               => 2 * number_segments' = number_segments]_vars
\* a remove has ended in a resize and left one segment
C18_RemoveHalved ==
    /\ Completed
    /\ last.op = "remove"
    /\ last.path = {"resize"}
    /\ number_segments = 1
    /\ cardinality > 0

\* ------------------------------------------- inserts into a new index
\* the inserts followed from a new index: one more than a segment holds
MaxInserts == B + 1
\* insert(key, value) of a key that is not stored, into an index that has
\* seen nothing but inserts
InsertOnly ==
    /\ trap = ""
    /\ nops < MaxInserts
    /\ \E key \in Keys \ StoredKeys, tag \in Tags, fill \in FillValues :
         LET path == InsertPath(Storage, key)
         IN /\ Becomes(insert(Storage, key, ValueOf(key, tag), fill))
            /\ stored' = stored \cup {<<key, ValueOf(key, tag)>>}
            /\ last' = [op |-> "insert", key |-> key, ret |-> 0, path |-> {path},
                        windows |-> InsertWindows(Storage, key), batch |-> <<>>]
    /\ nops' = nops + 1
\* a new index and inserts only
SpecInserts == Init /\ [][InsertOnly]_vars

\* C19: from a new index of one segment, each of the first B inserts leaves
\* one segment of capacity B that holds every element, on the path that
\* neither rebalances nor resizes; the insert that finds segment 0 with B
\* elements is the first to change the number of segments, to 2
C19_FirstResizeAtFullSegment ==
    [][nops' = nops + 1 =>
         /\ nops' <= B =>
              /\ trap' = ""
              /\ number_segments' = 1
              /\ capacity' = B
              /\ height' = 1
              /\ cardinality' = nops'
              /\ Rd(sizes', 0) = nops'
              /\ last'.path \subseteq {"empty", "local"}
         /\ nops = B =>
              /\ number_segments = 1
              /\ Rd(sizes, 0) = B
              /\ trap' = ""
              /\ last'.path = {"resize"}
              /\ number_segments' = 2]_vars
\* the insert after the first B has run and resized the array
C19_FullSegmentResized ==
    /\ Completed
    /\ nops = B + 1
    /\ last.op = "insert"
    /\ last.path = {"resize"}
    /\ number_segments = 2
    /\ cardinality = B + 1

\* --------------------------------------------- the index becoming empty
\* C20: a remove that takes the cardinality from 1 to 0 leaves at least one
\* segment and the lowest 64-bit integer as the separator of segment 0
C20_EmptiedIndexReset ==
    [][(/\ nops' = nops + 1
        /\ last'.op = "remove"
        /\ cardinality = 1
        /\ cardinality' = 0
        /\ trap' = "")
         => /\ number_segments' >= 1
            /\ Rd(sep', 0) = I64Min]_vars
\* the last element has been removed
C20_LastElementRemoved ==
    /\ Completed
    /\ last.op = "remove"
    /\ last.ret # Missing
    /\ cardinality = 0
    /\ stored = {}
    /\ number_segments = 1
    /\ Rd(sep, 0) = I64Min

\* ------------------------------------------------- refused allocations
\* the storage when the system has no memory left for a new workspace
OutOfMemory == [Storage EXCEPT !.no_memory = TRUE]
\* insert(key, value) that reaches PMA::alloc_workspace and is refused the
\* memory: the exception leaves insert
InsertOutOfMemory ==
    /\ trap = ""
    /\ nops < MaxOps
    /\ \E key \in Keys \ StoredKeys, tag \in Tags, fill \in FillValues :
         /\ InsertPath(Storage, key) = "resize"
         /\ Becomes(insert(OutOfMemory, key, ValueOf(key, tag), fill))
         /\ last' = [op |-> "insert", key |-> key, ret |-> 0, path |-> {"resize"},
                     windows |-> {}, batch |-> <<>>]
    /\ stored' = stored
    /\ nops' = nops + 1
\* remove(key) that reaches PMA::alloc_workspace and is refused the memory:
\* the exception leaves remove, no value is returned
RemoveOutOfMemory ==
    /\ trap = ""
    /\ nops < MaxOps
    /\ \E key \in StoredKeys, fill \in FillValues :
         LET Fails(r) == Becomes(r.st)
         IN /\ RemovePath(Storage, key) = "resize"
            /\ Fails(remove(OutOfMemory, key, fill))
            /\ last' = [op |-> "remove", key |-> key, ret |-> Missing,
                        path |-> {"resize"}, windows |-> {}, batch |-> <<>>]
    /\ stored' = stored
    /\ nops' = nops + 1
\* load_sorted(array) that reaches PMA::alloc_workspace and is refused the
\* memory: the exception leaves load_sorted
LoadOutOfMemory ==
    /\ trap = ""
    /\ nops < MaxOps
    /\ nops < MaxLoadOps \/ cardinality = 0
    /\ \E b \in Batches, tag \in Tags, fill \in FillValues :
         LET array == SortedBatch(b, tag)
         IN /\ LoadPath(Storage, array) \cap {"empty_multi", "resize_general"} # {}
            /\ Becomes(load_sorted(OutOfMemory, array, fill))
            /\ last' = [op |-> "load", key |-> array[1][1], ret |-> 0,
                        path |-> LoadPath(Storage, array), windows |-> {},
                        batch |-> array]
    /\ stored' = stored
    /\ nops' = nops + 1

NextOrOutOfMemory ==
    \/ Insert
    \/ Remove
    \/ Load
    \/ InsertOutOfMemory
    \/ RemoveOutOfMemory
    \/ LoadOutOfMemory
\* the operations, each of which may be refused the memory of a workspace
SpecOutOfMemory == Init /\ [][NextOrOutOfMemory]_vars

\* the arrays, the separators and the counters of the storage are what they
\* were before the step
StorageUntouched ==
    /\ keys' = keys
    /\ values' = values
    /\ sizes' = sizes
    /\ sep' = sep
    /\ cardinality' = cardinality
    /\ number_segments' = number_segments
\* a step of `op' that was refused the memory of a workspace
RefusedIn(ops) == /\ nops' = nops + 1
                  /\ last'.op \in ops
                  /\ trap' = "bad_alloc"
\* C14: an insert or remove that fails on an allocation in its rebalance or
\* resize leaves keys, values, segment sizes, separators, cardinality and
\* number of segments exactly as they were before the operation
C14_FailedUpdateLeavesStorage ==
    [][RefusedIn({"insert", "remove"}) => StorageUntouched]_vars
\* an insert that fails on the allocation of its resize leaves the storage
\* as it was before the operation
FailedInsertLeavesStorage ==
    [][RefusedIn({"insert"}) => StorageUntouched]_vars
\* a remove has failed on the allocation of the workspace of its resize,
\* which posix_memalign was to provide, after it took the key out
C14_RemoveRefused ==
    /\ trap = "bad_alloc"
    /\ last.op = "remove"
    /\ spe = NoRewire
    /\ cardinality = Cardinality(stored) - 1
\* an insert has failed on the allocation of the workspace of its resize
InsertRefused == trap = "bad_alloc" /\ last.op = "insert"

\* C15: a load_sorted that fails on an allocation leaves the arrays, segment
\* sizes, separators, cardinality and number of segments as they were,
\* also when it was building a new array of several segments for an empty
\* index
C15_FailedLoadLeavesStorage ==
    [][RefusedIn({"load"}) => StorageUntouched]_vars
\* a load_sorted that fails on the allocation of the workspace of its resize
\* of an index that holds elements leaves the storage as it was
FailedResizeLoadLeavesStorage ==
    [][(RefusedIn({"load"}) /\ cardinality > 0) => StorageUntouched]_vars
\* a load into an empty index has failed on the allocation of its array,
\* which posix_memalign was to provide, and has left no array
C15_EmptyLoadRefused ==
    /\ trap = "bad_alloc"
    /\ last.op = "load"
    /\ last.path = {"empty_multi"}
    /\ spe = NoRewire
    /\ DOMAIN keys = {}
\* a load into an index that holds elements has failed on the allocation
ResizeLoadRefused ==
    /\ trap = "bad_alloc"
    /\ last.op = "load"
    /\ last.path = {"resize_general"}

\* -------------------------------------------------------- construction
\* std::numeric_limits<uint16_t>::max()
U16Max == 65535
\* the smallest segment capacity PMA::PMA accepts
MinSegmentCapacity == 32
\* sizeof(m_keys[0])
KeyBytes == 8
\* the largest segment size, in units of one, tried around each power of two
MaxSmallSegmentSize == 70
\* the segment sizes the constructor is called with
SegmentSizes ==
    (0..MaxSmallSegmentSize)
      \cup {127, 128, 129, 255, 256, 257, 511, 512, 513, 1023, 1024, 1025,
            32767, 32768, 32769, 65535, 65536, 65537}
\* the largest number of pages per extent the constructor is called with
MaxPagesPerExtent == 9
\* get_memory_page_size(): the page sizes of the systems considered
PageSizes == {4096, 16384}

\* PMA::PMA, the segment size is too big
SegmentTooBig(segment_size) == hyperceil(segment_size) > U16Max
\* a faulty lower bound: the smallest capacity is turned down
SegmentTooSmallOrLeast(segment_capacity) == segment_capacity <= MinSegmentCapacity
\* PMA::PMA, the segment size is too small
SegmentTooSmall(segment_capacity) == segment_capacity < MinSegmentCapacity
\* PMA::PMA, the pages per extent are not a power of 2
PagesNotPowerOfTwo(pages_per_extent) == hyperceil(pages_per_extent) # pages_per_extent
\* PMA::PMA, a segment is not a divisor of the page
SegmentNotDivisor(segment_capacity, page_size) ==
    page_size % (segment_capacity * KeyBytes) # 0
\* PMA::PMA(segment_size, pages_per_extent) on a system of the given page
\* size: an exception or the capacity of the one segment allocated
PMA_PMA(segment_size, pages_per_extent, page_size) ==
    LET m_segment_capacity == hyperceil(segment_size)
    IN IF \/ SegmentTooBig(segment_size)
          \/ SegmentTooSmall(m_segment_capacity)
          \/ PagesNotPowerOfTwo(pages_per_extent)
          \/ SegmentNotDivisor(m_segment_capacity, page_size)
       THEN [thrown |-> TRUE, segment_capacity |-> m_segment_capacity]
       ELSE [thrown |-> FALSE, segment_capacity |-> m_segment_capacity]

\* the arguments of a constructor that has not run yet
InitArguments ==
    /\ \E segment_size \in SegmentSizes, pages_per_extent \in 0..MaxPagesPerExtent,
          page_size \in PageSizes :
         last = [op |-> "arguments", key |-> 0, ret |-> 0, path |-> {},
                 windows |-> {}, batch |-> <<>>, segment_size |-> segment_size,
                 pages_per_extent |-> pages_per_extent, page_size |-> page_size]
    /\ keys = <<>>
    /\ values = <<>>
    /\ sizes = <<>>
    /\ sep = <<>>
    /\ cardinality = 0
    /\ capacity = 0
    /\ number_segments = 0
    /\ height = 0
    /\ rewired = FALSE
    /\ used_buffers = 0
    /\ spe = 0
    /\ trap = ""
    /\ stored = {}
    /\ nops = 0
\* BTreePMACC7::BTreePMACC7: PMA::PMA checks its arguments, sets the
\* geometry and allocates the workspace of one segment
Construct ==
    /\ last.op = "arguments"
    /\ LET made == PMA_PMA(last.segment_size, last.pages_per_extent, last.page_size)
           n == made.segment_capacity
           segments_per_extent ==
               (last.pages_per_extent * last.page_size) \div (n * KeyBytes)
       IN IF made.thrown
          THEN /\ trap' = "invalid_argument"
               /\ UNCHANGED <<keys, values, sizes, sep, cardinality, capacity,
                              number_segments, height, rewired, used_buffers, spe>>
          ELSE /\ trap' = ""
               /\ \E fill \in FillValues :
                    /\ keys' = NewArray(n, fill)
                    /\ values' = NewArray(n, fill)
                    /\ sizes' = [NewArray(2, fill) EXCEPT ![1] = 0]
               /\ sep' = NewArray(1, I64Min)
               /\ cardinality' = 0
               /\ capacity' = n
               /\ number_segments' = 1
               /\ height' = 1
               /\ spe' = segments_per_extent
               /\ rewired' = (1 >= segments_per_extent)
               /\ used_buffers' = 0
    /\ last' = [last EXCEPT !.op = "new"]
    /\ UNCHANGED <<stored, nops>>
\* the constructor called with any of the arguments
SpecConstruct == InitArguments /\ [][Construct]_vars

\* n is one of the powers of two 2^0 .. 2^16
IsPowerOfTwo(n) == \E e \in 0..16 : n = 2 ^ e
\* the least power of two that is at least n
RoundedUp(n) == CHOOSE p \in {2 ^ e : e \in 0..17} :
                   /\ p >= n
                   /\ \A e \in 0..17 : 2 ^ e >= n => p <= 2 ^ e
\* the arguments the specification accepts
Accepted(segment_size, pages_per_extent, page_size) ==
    /\ RoundedUp(segment_size) >= 32
    /\ RoundedUp(segment_size) <= 65535
    /\ \E q \in 1..(page_size \div (RoundedUp(segment_size) * 8)) :
          q * (RoundedUp(segment_size) * 8) = page_size
    /\ IsPowerOfTwo(pages_per_extent)
\* C21: the constructor succeeds exactly when the segment size rounded up to
\* a power of two is at least 32 and at most 65535, its bytes divide the
\* page size and the pages per extent are a power of two; otherwise it
\* fails with an invalid-argument error; the index it constructs has one
\* segment, height 1, no element and the capacity of one segment
C21_ConstructionAcceptsValidGeometry ==
    [][(last.op = "arguments" /\ last'.op = "new") =>
         IF Accepted(last.segment_size, last.pages_per_extent, last.page_size)
         THEN /\ trap' = ""
              /\ number_segments' = 1
              /\ height' = 1
              /\ cardinality' = 0
              /\ capacity' = RoundedUp(last.segment_size)
         ELSE trap' = "invalid_argument"]_vars
\* an index of the largest capacity a page of 4096 bytes allows has been
\* constructed
C21_LargestSegmentConstructed ==
    /\ last.op = "new"
    /\ trap = ""
    /\ capacity = 512
    /\ number_segments = 1
    /\ last.segment_size = 257
    /\ last.page_size = 4096
    /\ last.pages_per_extent = 8

\* -------------------------------------------------- the window of rebalance
\* the elements of the segments from .. to - 1 of st
RECURSIVE ElementsIn(_, _, _)
ElementsIn(st, from, to) ==
    IF from >= to THEN 0 ELSE Rd(st.sizes, from) + ElementsIn(st, from + 1, to)
\* the first segment of the aligned window of height h around segment s
AlignedStart(s, h) == (s \div (2 ^ (h - 1))) * (2 ^ (h - 1))
\* the elements of that window, with the one an insert is about to add
AlignedCount(st, s, h, is_insert) ==
    ElementsIn(st, AlignedStart(s, h), AlignedStart(s, h) + 2 ^ (h - 1))
      + (IF is_insert THEN 1 ELSE 0)
\* the heights 2 .. H at which the aligned window around s is within its bound
QualifyingHeights(st, s, is_insert) ==
    {h \in 2..st.height :
       IF is_insert
       THEN ~DensityAboveTheta(AlignedCount(st, s, h, TRUE), 2 ^ (h - 1), h, st.height)
       ELSE ~DensityBelowRho(AlignedCount(st, s, h, FALSE), 2 ^ (h - 1), h, st.height)}
\* the plan is the aligned window of the lowest qualifying height with the
\* elements of exactly that window, or a resize when no height qualifies
LowestQualifying(st, s, is_insert, plan) ==
    LET hs == QualifyingHeights(st, s, is_insert)
    IN IF hs = {} THEN plan.resize
       ELSE \E h \in hs :
              /\ \A g \in hs : h <= g
              /\ ~plan.resize
              /\ plan.window_start = AlignedStart(s, h)
              /\ plan.window_length = 2 ^ (h - 1)
              /\ plan.num_elements = AlignedCount(st, s, h, is_insert)
\* rebalance as insert(key, ..) is about to call it in st, if it is
InsertRebalances(st, key) ==
    st.cardinality > 0 /\ st.number_segments > 1 /\ BucketFull(st, IndexFind(st, key))
\* rebalance as remove(key) is about to call it after taking the key out
RemoveRebalances(st, r) ==
    r.value # Missing /\ st.number_segments > 1 /\ r.sz < MinimumSize
\* C22: on an index of more than one segment rebalance settles on the
\* aligned window of the lowest height 2 .. H whose density is within its
\* bound, counting the elements of exactly that window and the one being
\* inserted, and resizes only when no height qualifies
C22_RebalancePicksLowestWindow ==
    trap = "" =>
      /\ \A key \in Keys \ StoredKeys :
           InsertRebalances(Storage, key) =>
             LowestQualifying(Storage, IndexFind(Storage, key), TRUE,
                              RebalancePlan(Storage, IndexFind(Storage, key), TRUE))
      /\ \A key \in StoredKeys :
           LET Of(r) == RemoveRebalances(Storage, r) =>
                          LowestQualifying(r.st, r.segment_id, FALSE,
                                           RebalancePlan(r.st, r.segment_id, FALSE))
           IN Of(RemoveLocal(Storage, key))
\* a remove has spread the four segments of the window at the root after
\* the window of two segments was found too sparse
C22_RootWindowSpread ==
    /\ Completed
    /\ last.op = "remove"
    /\ last.windows = {<<0, 4>>}
    /\ number_segments = 4

\* ------------------------------------------------- the shares of a spread
\* the last operation was an insert or a remove that ended in a spread
SpreadDone ==
    /\ Completed
    /\ last.op \in {"insert", "remove"}
    /\ last.path \in {{"rewired"}, {"two_copies"}}
\* a step of insert or remove that ended in a spread
SpreadStep == nops' = nops + 1 /\ SpreadDone'
\* the elements the window <<ws, w>> held before the step, without the key
\* a remove takes out
WindowHeld(win) ==
    ElementsIn(Storage, win[1], win[1] + win[2])
      - (IF last'.op = "remove" THEN 1 ELSE 0)
\* the element an insert adds
Pending == IF last'.op = "insert" THEN 1 ELSE 0
\* the segments of the window
SegmentsOf(win) == win[1]..(win[1] + win[2] - 1)
\* after the step the window holds n elements and each of its segments
\* floor(n / W) or ceil(n / W) of them
SharedEvenly(win, n) ==
    /\ ElementsIn([sizes |-> sizes'], win[1], win[1] + win[2]) = n
    /\ \A s \in SegmentsOf(win) :
         \/ Rd(sizes', s) = n \div win[2]
         \/ Rd(sizes', s) = (n + win[2] - 1) \div win[2]
\* C23: after an insert or remove that ended in a spread of a window of W
\* segments holding N elements, the inserted one counted, every segment of
\* the window holds floor(N / W) or ceil(N / W) elements, whichever way the
\* window was spread
C23_SpreadSharesEvenly ==
    [][SpreadStep =>
         \A win \in last'.windows : SharedEvenly(win, WindowHeld(win) + Pending)]_vars
\* what segment i of a window of w segments takes of n elements that go to
\* the extents first, the leftmost taking one more, and then to the
\* segments of each extent, again the leftmost taking one more
ShareByExtent(n, w, i) ==
    LET num_extents == w \div spe
        of_extent == (n \div num_extents)
                       + (IF i \div spe < n % num_extents THEN 1 ELSE 0)
    IN (of_extent \div spe) + (IF i % spe < of_extent % spe THEN 1 ELSE 0)
\* C23, as the code has it: after a two-chunk spread every segment of the
\* window holds floor(N / W) or ceil(N / W) of its N elements; after a
\* rewired spread the elements that were in the window are shared by
\* extent and then by segment, and the inserted element comes on top of
\* the share of one segment
C23_SpreadSharesByStrategy ==
    [][SpreadStep =>
         \A win \in last'.windows :
           IF last'.path = {"two_copies"}
           THEN SharedEvenly(win, WindowHeld(win) + Pending)
           ELSE \E t \in SegmentsOf(win) :
                  \A s \in SegmentsOf(win) :
                    Rd(sizes', s) = ShareByExtent(WindowHeld(win), win[2], s - win[1])
                                      + (IF s = t THEN Pending ELSE 0)]_vars
\* an insert has ended in a rewired spread of a window of several segments
\* per extent and left a segment two elements above another
C23_InsertOnTopOfShare ==
    /\ SpreadDone
    /\ last.op = "insert"
    /\ last.path = {"rewired"}
    /\ spe = 2
    /\ \E win \in last.windows :
         \E s, t \in win[1]..(win[1] + win[2] - 1) : Rd(sizes, s) >= Rd(sizes, t) + 2

\* the segments of the window hold n elements after the step, the first
\* n mod W of them one more than the others
SharedLeftmost(win, n) ==
    \A s \in SegmentsOf(win) :
      Rd(sizes', s) = (n \div win[2]) + (IF s - win[1] < n % win[2] THEN 1 ELSE 0)
\* C24: after a spread of a window of W segments holding N elements the
\* segments of window-relative index 0 .. (N mod W) - 1 hold one element
\* more than the others, whichever way the window was spread and also
\* when it spans several extents
C24_ExtrasGoLeftmost ==
    [][SpreadStep =>
         \A win \in last'.windows : SharedLeftmost(win, WindowHeld(win) + Pending)]_vars
\* C24, as the code has it: after a two-chunk spread the first N mod W
\* segments of the window hold one element more than the others; after a
\* rewired spread the extra elements go to the leftmost extents of the
\* window and, of what an extent takes, to its leftmost segments, with the
\* inserted element on top of one segment
C24_ExtrasGoLeftmostByStrategy ==
    [][SpreadStep =>
         \A win \in last'.windows :
           IF last'.path = {"two_copies"}
           THEN SharedLeftmost(win, WindowHeld(win) + Pending)
           ELSE \E t \in SegmentsOf(win) :
                  \A s \in SegmentsOf(win) :
                    Rd(sizes', s) - (IF s = t THEN Pending ELSE 0)
                      = ShareByExtent(WindowHeld(win), win[2], s - win[1])]_vars
\* a remove has ended in a rewired spread of a window of two extents that
\* left the extra elements in the first segment of each extent
C24_ExtrasLeftmostInEachExtent ==
    /\ SpreadDone
    /\ last.op = "remove"
    /\ last.path = {"rewired"}
    /\ spe = 2
    /\ last.windows = {<<0, 4>>}
    /\ Rd(sizes, 1) < Rd(sizes, 2)

\* ------------------------------------------- the elements of a spread window
\* the pairs of the segments from .. to - 1 of st, in segment order
RECURSIVE EnumerateWindow(_, _, _)
EnumerateWindow(st, from, to) ==
    IF from >= to THEN <<>>
    ELSE SegmentPairs(st, from) \o EnumerateWindow(st, from + 1, to)
\* the sequence q without the pairs of key k
WithoutKey(q, k) == SelectSeq(q, LAMBDA p : p[1] # k)
\* the sequence q with the pair p put before the first pair of a greater key
WithPair(q, p) ==
    SelectSeq(q, LAMBDA x : x[1] < p[1]) \o <<p>> \o SelectSeq(q, LAMBDA x : x[1] >= p[1])
\* the stored value of the key the last step inserted
InsertedPair == CHOOSE p \in stored' : p[1] = last'.key
\* what the window <<ws, w>> is to enumerate after the step: what it did,
\* without the key removed or with the pair inserted at its sorted position
WindowExpected(win) ==
    IF last'.op = "remove"
    THEN WithoutKey(EnumerateWindow(Storage, win[1], win[1] + win[2]), last'.key)
    ELSE WithPair(EnumerateWindow(Storage, win[1], win[1] + win[2]), InsertedPair)
\* the storage after the step, as far as the enumeration reads it
StorageAfter == [keys |-> keys', values |-> values', sizes |-> sizes']
\* a step of insert or remove that went through a rewired spread, complete
\* or not
RewiredSpreadStep ==
    /\ nops' = nops + 1
    /\ last'.op \in {"insert", "remove"}
    /\ last'.path = {"rewired"}
\* C25: a rewired spread of a window of whole extents, whatever the window
\* holds, overwrites no element before it is read: it runs to its end and
\* the window then enumerates the elements it held, in the same order, with
\* the pending element at its sorted position
C25_RewiredSpreadKeepsElements ==
    [][RewiredSpreadStep =>
         /\ trap' = ""
         /\ \A win \in last'.windows :
              EnumerateWindow(StorageAfter, win[1], win[1] + win[2]) = WindowExpected(win)]_vars
\* a rewired spread of a window of two extents of two segments has run
TwoExtentsSpread ==
    /\ SpreadDone
    /\ last.path = {"rewired"}
    /\ spe = 2
    /\ last.windows = {<<0, 4>>}
    /\ PairsOf(Enumeration) = stored
\* a rewired spread over extents of one segment has lost elements
C25_SingleSegmentExtentSpread ==
    /\ SpreadDone
    /\ last.path = {"rewired"}
    /\ spe = 1
    /\ PairsOf(Enumeration) # stored

\* ------------------------------------------- the two-chunk spread by itself
\* an array of eight segments of the smallest capacity a build can have,
\* below the size of an extent: every window is spread in two chunks and
\* the window of the root leaves its first four segments to chunk 1
\* the cardinalities of the first four segments: each one element from
\* full or full, or half full but for one or two full segments
UpperSizes ==
    LET full == MinSegmentCapacity
        half == MinSegmentCapacity \div 2
    IN [1..4 -> {full - 1, full}]
         \cup {<<half, half, half, half>>, <<full, half, half, half>>,
               <<half, half, full, full>>}
\* the cardinalities of the last four segments: at the smallest
\* cardinality, one of them below it as a remove leaves it, or half full
LowerSizes ==
    LET m == MinimumSizeOf(MinSegmentCapacity)
        half == MinSegmentCapacity \div 2
    IN {<<m - 1, m, m, m>>, <<m, m, m, m>>, <<m, m, m, m - 1>>,
        <<half, half, half, half>>}
\* the cardinalities of the eight segments
WindowSizes ==
    {[s \in 0..7 |-> IF s < 4 THEN up[s + 1] ELSE low[s - 3]] :
       up \in UpperSizes, low \in LowerSizes}
\* the elements of the segments before s
RECURSIVE ElementsBefore(_, _)
ElementsBefore(sz, s) == IF s = 0 THEN 0 ELSE sz[s - 1] + ElementsBefore(sz, s - 1)
\* the key of the element of rank r, with room between two keys for a key
\* to insert
RankKey(r) == 10 * r
\* first position of the packed range of segment s of capacity cap
PackedStartOf(sz, cap, s) == IF s % 2 = 0 THEN (s + 1) * cap - sz[s] ELSE s * cap
\* the rank of the element in cell p, 0 if the cell is outside the packed
\* range of its segment
RankAt(sz, cap, p) ==
    LET s == p \div cap
        start == PackedStartOf(sz, cap, s)
    IN IF p >= start /\ p < start + sz[s] THEN ElementsBefore(sz, s) + (p - start) + 1
       ELSE 0
\* the array with the cardinalities sz, its N elements in ascending order
InitWindow ==
    \E fill \in FillValues, sz \in WindowSizes :
      LET cap == MinSegmentCapacity
          S == Cardinality(DOMAIN sz)
          N == ElementsBefore(sz, S)
      IN /\ keys = [p \in 0..(S * cap - 1) |->
                      IF RankAt(sz, cap, p) = 0 THEN fill ELSE RankKey(RankAt(sz, cap, p))]
         /\ values = [p \in 0..(S * cap - 1) |->
                        IF RankAt(sz, cap, p) = 0 THEN fill
                        ELSE ValueOf(RankKey(RankAt(sz, cap, p)), 0)]
         /\ sizes = sz
         /\ sep = [s \in 0..(S - 1) |-> RankKey(ElementsBefore(sz, s) + 1)]
         /\ cardinality = N
         /\ capacity = S * cap
         /\ number_segments = S
         /\ height = Log2(S) + 1
         /\ rewired = FALSE
         /\ used_buffers = 0
         /\ spe = NoRewire
         /\ trap = ""
         /\ stored = {<<RankKey(r), ValueOf(RankKey(r), 0)>> : r \in 1..N}
         /\ last = [op |-> "window", key |-> 0, ret |-> 0, path |-> {},
                    windows |-> {}, batch |-> <<>>]
         /\ nops = 0
\* the sum of the cardinalities of the segments from .. to - 1
RECURSIVE SizesIn(_, _, _)
SizesIn(sz, from, to) == IF from >= to THEN 0 ELSE sz[from] + SizesIn(sz, from + 1, to)
\* BTreePMACC7::rebalance, the search of the window in a tree of height H
\* over segments of capacity cap, from height h: own is 1 for the element
\* an insert adds to its full segment
RECURSIVE WindowOfRebalance(_, _, _, _, _, _)
WindowOfRebalance(sz, cap, H, segment_id, is_insert, h) ==
    LET w == 2 ^ (h - 1)
        ws == (segment_id \div w) * w
        n == SizesIn(sz, ws, ws + w) + (IF is_insert THEN 1 ELSE 0)
        out == IF is_insert THEN n * ThresholdDen(H) > ThetaNum(h, H) * w * cap
               ELSE n * ThresholdDen(H) < RhoNum(h, H) * w * cap
    IN IF out /\ h < H
       THEN WindowOfRebalance(sz, cap, H, segment_id, is_insert, h + 1)
       ELSE [window |-> <<ws, w>>, num_elements |-> n, resize |-> out]
\* the rebalances the array is in for: that of an insert into a full
\* segment, of a key that goes behind its last element, and that of the
\* remove that left a segment below the smallest cardinality
PendingRebalances ==
    {SpreadInsert(RankKey(ElementsBefore(sizes, s + 1)) + 5,
                  ValueOf(RankKey(ElementsBefore(sizes, s + 1)) + 5, 0), s) :
       s \in {t \in DOMAIN sizes : sizes[t] = SegmentCapacity(Storage)}}
    \cup {[NoInsert EXCEPT !.segment_id = s] :
            s \in {t \in DOMAIN sizes : sizes[t] < MinimumSizeOf(SegmentCapacity(Storage))}}
\* BTreePMACC7::rebalance of an insert or a remove that ends in
\* spread_two_copies, with a memcpy that copies in either order
SpreadTwoCopies ==
    /\ last.op = "window"
    /\ \E ins \in PendingRebalances, fill \in FillValues, backward \in BOOLEAN :
         LET plan == WindowOfRebalance(sizes, SegmentCapacity(Storage), height,
                                       ins.segment_id, ins.on, 2)
             Spread(win, n) ==
                 /\ Becomes(spread_two_copies([Storage EXCEPT !.memcpy_backward = backward],
                                              n, win[1], win[2], ins, fill))
                 /\ last' = [op |-> "spread", key |-> ins.key, ret |-> ins.segment_id,
                             path |-> {"two_copies"}, windows |-> {win}, batch |-> <<>>,
                             memcpy_backward |-> backward]
         IN /\ ~plan.resize
            /\ Spread(plan.window, plan.num_elements)
            /\ stored' = stored \cup (IF ins.on THEN {<<ins.key, ins.value>>} ELSE {})
    /\ nops' = nops + 1
\* the two-chunk spread of the windows of the array
SpecTwoCopies == InitWindow /\ [][SpreadTwoCopies]_vars

\* the pairs of the segments from .. to - 1 of capacity cap, in segment
\* order
RECURSIVE PairsIn(_, _, _, _, _, _)
PairsIn(K, V, sz, cap, from, to) ==
    IF from >= to THEN <<>>
    ELSE [i \in 1..sz[from] |-> <<Rd(K, PackedStartOf(sz, cap, from) + i - 1),
                                   Rd(V, PackedStartOf(sz, cap, from) + i - 1)>>]
           \o PairsIn(K, V, sz, cap, from + 1, to)
\* what the segments from .. to - 1 enumerate before and after the step
PairsBefore(from, to) == PairsIn(keys, values, sizes, SegmentCapacity(Storage), from, to)
PairsAfter(from, to) == PairsIn(keys', values', sizes', SegmentCapacity(Storage), from, to)
\* what the window is to enumerate after the step
TwoCopiesExpected(win) ==
    IF last'.key = 0 THEN PairsBefore(win[1], win[1] + win[2])
    ELSE WithPair(PairsBefore(win[1], win[1] + win[2]),
                  <<last'.key, ValueOf(last'.key, 0)>>)
\* the window holds the elements it held and the inserted one, in ascending
\* order, and the segments outside it are as they were
WindowKept(win) ==
    /\ PairsAfter(win[1], win[1] + win[2]) = TwoCopiesExpected(win)
    /\ Ascending(PairsAfter(win[1], win[1] + win[2]))
    /\ PairsAfter(0, win[1]) = PairsBefore(0, win[1])
    /\ PairsAfter(win[1] + win[2], number_segments)
         = PairsBefore(win[1] + win[2], number_segments)
\* C26: the two-chunk spread of a window of even start and even length
\* overwrites no element before it has copied it, whatever the order in
\* which memcpy copies: the window then holds the elements it held and the
\* inserted one, in ascending order, and the segments outside it are as
\* they were
C26_TwoCopiesKeepElements ==
    [][last'.op = "spread" /\ nops' = nops + 1 =>
         \A win \in last'.windows :
           /\ win[1] % 2 = 0 /\ win[2] % 2 = 0
           /\ WindowKept(win)]_vars
\* what holds of it: the window is kept by a memcpy that copies from the
\* first byte to the last, and by any memcpy when no copy of step 4 reads
\* cells it writes
TwoCopiesKeepElementsForward ==
    [][last'.op = "spread" /\ nops' = nops + 1
         /\ (~last'.memcpy_backward \/ trap' = "") =>
           \A win \in last'.windows : WindowKept(win)]_vars
\* step 4 of a spread of the eight segments has copied cells of chunk 1 to
\* cells of chunk 1 not yet read, and the window has lost elements
C26_ChunkOneOverwritten ==
    /\ last.op = "spread"
    /\ last.windows = {<<0, 8>>}
    /\ trap = "memcpy_overlap"
    /\ last.memcpy_backward
    /\ PairsOf(PairsIn(keys, values, sizes, SegmentCapacity(Storage), 0, number_segments))
         # stored

\* --------------------------------------- the scratch buffers of a rewired spread
\* the storage rebalance is handed by the step: that of the insert, or that
\* of the remove with its key taken out
RebalancedStorage ==
    IF last'.op = "remove" THEN RemoveLocal(Storage, last'.key).st ELSE Storage
\* SpreadWithRewiring::spread_window, extent after extent from i down to 0:
\* the cursor and the queue of scheduled buffers before and after each
\* spread_extent
RECURSIVE ExtentSteps(_, _, _, _, _)
ExtentSteps(R, ws, i, epe, odd) ==
    IF ~(i >= 0) THEN <<>>
    ELSE LET Then(R1) ==
                 <<[extent_id |-> i,
                    scheduled |-> get_current_extent(R.st, ws, R.position) >= i,
                    queued |-> R.queue,
                    cursor |-> get_current_extent(R1.st, ws, R1.position),
                    left |-> R1.queue,
                    used_buffers |-> R1.st.used_buffers]>>
                   \o ExtentSteps(R1, ws, i - 1, epe, odd)
         IN Then(spread_extent(R, ws, i, epe + (IF i < odd THEN 1 ELSE 0), 0))
\* the steps of the rewired spread of the window win
WindowSteps(win) ==
    LET Of(st, n, num_extents) ==
            ExtentSteps([st |-> st, position |-> WindowEndPosition(st, win[1], win[2]),
                         queue |-> <<>>],
                        win[1], num_extents - 1, n \div num_extents, n % num_extents)
    IN Of(RebalancedStorage, WindowHeld(win), win[2] \div spe)
\* the extents of a queue of scheduled buffers, in its order
ExtentsOf(q) == [j \in 1..Len(q) |-> q[j].extent_id]
\* the extents scheduled when step t reclaims: those queued before and its
\* own if it wrote to a buffer
ScheduledAt(t) ==
    ExtentsOf(t.queued) \o (IF t.scheduled THEN <<t.extent_id>> ELSE <<>>)
\* step t has swapped the first k scheduled buffers, in their order, each
\* for an extent behind the cursor, and has left the others scheduled
SwappedInOrder(t, k) ==
    /\ ExtentsOf(t.left) = SubSeq(ScheduledAt(t), k + 1, Len(ScheduledAt(t)))
    /\ \A j \in 1..k : ScheduledAt(t)[j] > t.cursor
    /\ t.used_buffers = Len(t.left)
\* C27: in a rewired spread a scheduled buffer is swapped into its extent
\* only when the read cursor is in an extent of a smaller id, the buffers
\* are swapped in the order in which they were scheduled, each once, and
\* none is left scheduled after the last extent
C27_BuffersSwappedInOrder ==
    [][RewiredSpreadStep =>
         \A win \in last'.windows :
           LET Ordered(steps) ==
                   /\ \A x \in 1..Len(steps) :
                        \E k \in 0..Len(ScheduledAt(steps[x])) :
                          SwappedInOrder(steps[x], k)
                   /\ steps[Len(steps)].left = <<>>
                   /\ used_buffers' = 0
           IN Ordered(WindowSteps(win))]_vars
\* a rewired spread over two extents of one segment has returned with both
\* its buffers scheduled
C27_BuffersLeftScheduled ==
    /\ last.op \in {"insert", "remove"}
    /\ last.path = {"rewired"}
    /\ spe = 1
    /\ used_buffers = 2
\* C27 where an extent holds two segments or more
BuffersSwappedInOrderWide ==
    [][RewiredSpreadStep /\ spe # 1 =>
         \A win \in last'.windows :
           LET Ordered(steps) ==
                   /\ \A x \in 1..Len(steps) :
                        \E k \in 0..Len(ScheduledAt(steps[x])) :
                          SwappedInOrder(steps[x], k)
                   /\ steps[Len(steps)].left = <<>>
                   /\ used_buffers' = 0
           IN Ordered(WindowSteps(win))]_vars

\* ------------------------------------------- when remove calls rebalance
\* the segment capacities remove is followed with: the four smallest a
\* build can have
SegmentCapacities == {MinSegmentCapacity * (2 ^ i) : i \in 0..3}
\* the largest cardinality of the segment the key is removed from
MaxSegmentSize == 24
\* a segment of capacity cap holding sz elements, the first of S segments,
\* the others half full
InitSegment ==
    \E cap \in SegmentCapacities, S \in {1, 2, 4}, sz \in 1..MaxSegmentSize :
      /\ sizes = [s \in 0..(Max(2, S) - 1) |->
                    IF s = 0 THEN sz ELSE IF s < S THEN cap \div 2 ELSE 0]
      /\ cardinality = sz + (S - 1) * (cap \div 2)
      /\ capacity = S * cap
      /\ number_segments = S
      /\ height = Log2(S) + 1
      /\ keys = <<>>
      /\ values = <<>>
      /\ sep = <<>>
      /\ rewired = FALSE
      /\ used_buffers = 0
      /\ spe = NoRewire
      /\ trap = ""
      /\ stored = {}
      /\ last = [op |-> "segment", key |-> 0, ret |-> 0, path |-> {}, windows |-> {},
                 batch |-> <<>>]
      /\ nops = 0
\* BTreePMACC7::remove, "shall we rebalance ?": the key was found in a
\* segment that is left with sz elements
ShallRebalance(st, sz) ==
    st.number_segments > 1 /\ sz < MinimumSizeOf(SegmentCapacity(st))
\* BTreePMACC7::remove of a key found in segment 0, up to its decision to
\* rebalance; the elements and the rebalance itself are left out
RemoveFound ==
    /\ last.op = "segment"
    /\ sizes' = [sizes EXCEPT ![0] = @ - 1]
    /\ cardinality' = cardinality - 1
    /\ last' = [last EXCEPT !.op = "remove",
                            !.path = IF ShallRebalance(Storage, sizes[0] - 1)
                                     THEN {"rebalance"} ELSE {"local"}]
    /\ nops' = nops + 1
    /\ UNCHANGED <<keys, values, sep, capacity, number_segments, height, rewired,
                   used_buffers, spe, trap, stored>>
\* remove of a found key, for a range of capacities and cardinalities
SpecRemoveFound == InitSegment /\ [][RemoveFound]_vars

\* m is rho_1 * B rounded up, rho_1 the lower bound of the leaves
IsCeilOfRhoB(m) ==
    /\ 100 * (m - 1) < RhoLeaves * (capacity \div number_segments)
    /\ RhoLeaves * (capacity \div number_segments) <= 100 * m
\* m is rho_1 * B rounded down
IsFloorOfRhoB(m) ==
    /\ 100 * m <= RhoLeaves * (capacity \div number_segments)
    /\ RhoLeaves * (capacity \div number_segments) < 100 * (m + 1)
\* C28: remove(k) of a key found in segment s calls rebalance(s) exactly
\* when there is more than one segment and the segment is left with fewer
\* than max(ceil(rho_1 * B), 1) elements
C28_RebalanceBelowCeil ==
    (last.op = "remove" /\ last.path \in {{"rebalance"}, {"local"}}) =>
       \A m \in 0..(capacity \div number_segments) :
         IsCeilOfRhoB(m) =>
           (last.path = {"rebalance"} <=> (number_segments > 1 /\ sizes[0] < Max(m, 1)))
\* what the code has: remove(k) of a key found in segment s calls
\* rebalance(s) exactly when there is more than one segment and the segment
\* is left with fewer than max(floor(rho_1 * B), 1) elements: the product is
\* converted to an unsigned integer, which drops its fraction
RebalanceBelowFloor ==
    (last.op = "remove" /\ last.path \in {{"rebalance"}, {"local"}}) =>
       \A m \in 0..(capacity \div number_segments) :
         IsFloorOfRhoB(m) =>
           (last.path = {"rebalance"} <=> (number_segments > 1 /\ sizes[0] < Max(m, 1)))
\* a remove has left a segment of capacity 32 with two elements, 0.0625 of
\* its capacity, and has not called rebalance
C28_BelowRhoNotRebalanced ==
    /\ last.op = "remove"
    /\ last.path = {"local"}
    /\ number_segments > 1
    /\ capacity \div number_segments = MinSegmentCapacity
    /\ sizes[0] = 2

\* ------------------------------------------- the array a remove has halved
\* the segments of st that hold no element
EmptySegments(st) == {s \in 0..(st.number_segments - 1) : Rd(st.sizes, s) = 0}
\* a remove whose rebalance has ended in resize_general
RemoveResizeStep ==
    /\ nops' = nops + 1
    /\ last'.op = "remove"
    /\ last'.path = {"resize"}
\* C29: the array a remove hands to resize_general has one empty segment
\* at most, hence no two adjacent ones; the resize runs to its end and the
\* new array of half the segments enumerates every element the old one
\* held, in the same order
C29_HalvedArrayHasOneEmptySegment ==
    [][RemoveResizeStep =>
         /\ Cardinality(EmptySegments(RebalancedStorage)) <= 1
         /\ trap' = ""
         /\ 2 * number_segments' = number_segments
         /\ EnumerateFrom(StorageAfter @@ [number_segments |-> number_segments'], 0)
              = EnumerateFrom(RebalancedStorage, 0)]_vars
\* a remove has halved an array of four segments and elements are left
C29_FourSegmentsHalved ==
    /\ Completed
    /\ last.op = "remove"
    /\ last.path = {"resize"}
    /\ number_segments = 2
    /\ cardinality > 0

\* ------------------------------------------------ the resize of an insert
\* BTreePMACC7::resize_rewire: the arrays grow in place to twice their
\* segments and the rewired spread runs over the whole of them, from the
\* end of the last segment that held elements
resize_rewire(st, ins, fill) ==
    LET num_segments_before == st.number_segments
        num_segments_after == num_segments_before * 2
        ext == IndexRebuild(extend(st, num_segments_before, fill), num_segments_after)
    IN SpreadWithRewiring(ext, 0, num_segments_after,
                          st.cardinality + (IF ins.on THEN 1 ELSE 0),
                          (num_segments_before - 1) * B
                            + Rd(ext.sizes, num_segments_before - 1),
                          ins, fill)
\* BTreePMACC7::resize: the rewired branch for an insert into arrays that
\* span an extent, the new workspace otherwise
resize(st, ins, fill) ==
    IF ins.on /\ st.rewired /\ st.number_segments >= st.spe
    THEN resize_rewire(st, ins, fill)
    ELSE resize_general(st, ins, fill)
\* the step has left the storage as st
StorageIs(st) ==
    /\ keys' = st.keys /\ values' = st.values /\ sizes' = st.sizes /\ sep' = st.sep
    /\ cardinality' = st.cardinality /\ capacity' = st.capacity
    /\ number_segments' = st.number_segments /\ height' = st.height
    /\ rewired' = st.rewired /\ used_buffers' = st.used_buffers /\ trap' = st.trap
\* an insert whose search of a window has ended in a resize
InsertResizeStep ==
    /\ nops' = nops + 1
    /\ last'.op = "insert"
    /\ last'.path = {"resize"}
\* the insert the step has made, as rebalance is handed it
InsertOfStep ==
    SpreadInsert(last'.key, InsertedPair[2], IndexFind(Storage, last'.key))
\* C30: an insert whose window search ends in resize leaves the storage as
\* BTreePMACC7::resize does: as the rewired resize when the key array spans
\* an extent, as the resize into a new workspace otherwise
C30_InsertResizeTakesItsBranch ==
    [][InsertResizeStep =>
         \E fill \in FillValues : StorageIs(resize(Storage, InsertOfStep, fill))]_vars
\* what holds of it: the storage is always left as resize_general leaves it
InsertResizeIsGeneral ==
    [][InsertResizeStep =>
         \E fill \in FillValues : StorageIs(resize_general(Storage, InsertOfStep, fill))]_vars
\* an insert has doubled, into a new workspace, arrays of two segments that
\* spanned an extent
C30_RewiredArrayResizedByCopy ==
    /\ Completed
    /\ last.op = "insert"
    /\ last.path = {"resize"}
    /\ spe \in {1, 2}
    /\ number_segments = 4
    /\ rewired
    /\ PairsOf(Enumeration) = stored

\* ------------------------------------------------ the segment-local insert
\* an insert into an index that holds elements
InsertCommonStep ==
    /\ nops' = nops + 1
    /\ last'.op = "insert"
    /\ cardinality > 0
\* the segment the index gives for the key of the step
TargetSegment == IndexFind(Storage, last'.key)
\* the run of segment s held the key of the step in none of its cells and
\* was in ascending order
RunAdmits(s) ==
    /\ Ascending(SegmentPairs(Storage, s))
    /\ \A i \in 1..Rd(sizes, s) : SegmentPairs(Storage, s)[i][1] # last'.key
\* the step has inserted into segment s alone and has not rebalanced
InsertedLocally(s) ==
    LET before == SegmentPairs(Storage, s)
        after == SegmentPairs(StorageAfter, s)
    IN /\ last'.path = {"local"}
       /\ trap' = ""
       /\ sizes' = [sizes EXCEPT ![s] = @ + 1]
       /\ cardinality' = cardinality + 1
       /\ number_segments' = number_segments
       /\ capacity' = capacity
       /\ height' = height
       /\ RunAdmits(s) =>
            /\ after = WithPair(before, InsertedPair)
            /\ Ascending(after)
            /\ sep' = IF after[1][1] = last'.key THEN [sep EXCEPT ![s] = last'.key]
                      ELSE sep
       /\ \A p \in DOMAIN keys :
            p \div B # s => keys'[p] = keys[p] /\ values'[p] = values[p]
       /\ \A t \in DOMAIN sep : t # s => sep'[t] = sep[t]
UpdateInPlaceStep ==
    /\ nops' = nops + 1
    /\ last'.op \in {"insert", "remove"}
    /\ last'.path # {"resize"}
\* segment t is in the window the step has spread, or is the segment of the
\* key when the step has spread none
Touched(t) ==
    IF last'.windows = {} THEN t = IndexFind(Storage, last'.key)
    ELSE \E win \in last'.windows : t >= win[1] /\ t < win[1] + win[2]
\* the cells, the cardinality and the separator of segment t are as before
\* the step
SegmentUnchanged(t) ==
    /\ \A p \in (t * B)..(t * B + B - 1) : keys'[p] = keys[p] /\ values'[p] = values[p]
    /\ sizes'[t] = sizes[t]
    /\ sep'[t] = sep[t]
\* C32: an insert or remove that does not end in resize changes the keys,
\* the values, the cardinalities and the separators of no segment outside
\* the one window it spreads, or outside the segment of its key when it
\* spreads none
C32_UpdateChangesOneWindow ==
    [][UpdateInPlaceStep =>
         /\ number_segments' = number_segments
         /\ Cardinality(last'.windows) <= 1
         /\ \A t \in 0..(number_segments - 1) : ~Touched(t) => SegmentUnchanged(t)]_vars
\* a spread of two of four segments has changed both and has left the other
\* two as they were
C32_HalfOfArraySpread ==
    /\ SpreadDone
    /\ number_segments = 4
    /\ \E win \in last.windows : win[2] = 2
    /\ PairsOf(Enumeration) = stored

\* ------------------------------------------- the windows of the two-chunk spread
\* C33: in an array of two segments or more, whatever the segment an insert
\* finds full or a remove leaves too small, the window rebalance hands to
\* the spread starts at an even segment, has an even number of segments and
\* lies inside the array: the entry assertions of spread_two_copies hold
C33_SpreadWindowEven ==
    number_segments >= 2 =>
      \A segment_id \in 0..(number_segments - 1), is_insert \in BOOLEAN :
        LET Even(plan) ==
                ~plan.resize =>
                  /\ plan.window_start % 2 = 0
                  /\ plan.window_length % 2 = 0
                  /\ plan.window_length >= 2
                  /\ plan.window_start <= segment_id
                  /\ segment_id < plan.window_start + plan.window_length
                  /\ plan.window_start + plan.window_length <= number_segments
        IN Even(RebalancePlan(Storage, segment_id, is_insert))
\* a two-chunk spread has run on the second pair of segments of an array
C33_SecondPairSpread ==
    /\ SpreadDone
    /\ last.path = {"two_copies"}
    /\ last.windows = {<<2, 2>>}

\* ------------------------------------------------- the second cardinality
\* C34: while the array has one segment, the cardinality of a second
\* segment exists and is 0: after construction, after a resize down to one
\* segment, after a load into one segment, and after every insert and
\* remove on one segment
C34_SentinelSizeIsZero ==
    number_segments = 1 => (1 \in DOMAIN sizes /\ sizes[1] = 0)
\* a remove has halved an array of two segments into a workspace whose
\* memory was not zeroed
C34_HalvedToOneSegment ==
    /\ Completed
    /\ last.op = "remove"
    /\ last.path = {"resize"}
    /\ number_segments = 1
    /\ cardinality > 0
    /\ \E p \in DOMAIN keys : keys[p] = 99

\* ----------------------------------------------------- the runs of a batch
\* the largest key segment s takes: the separator of the segment after it
RunUpperBound(s) == IF s + 1 < number_segments THEN sep[s + 1] ELSE I64Max
\* the runs cut the batch A: they follow each other from its first element
\* to its last, each is the longest stretch of keys its segment takes, the
\* segments increase and each run counts its segment and its elements
RunsCut(A, runs) ==
    /\ Len(runs) >= 1
    /\ runs[1].run_start = 0
    /\ runs[Len(runs)].run_start + runs[Len(runs)].run_length = Len(A)
    /\ \A j \in 1..Len(runs) :
         LET r == runs[j]
             s == r.window_start
             end == r.run_start + r.run_length
         IN /\ r.run_length >= 1
            /\ j < Len(runs) => runs[j + 1].run_start = end
            /\ j < Len(runs) => runs[j + 1].window_start > s
            /\ s = IndexFindFirst(Storage, KeyAt(A, r.run_start))
            /\ \A i \in r.run_start..(end - 1) : KeyAt(A, i) <= RunUpperBound(s)
            /\ end < Len(A) => KeyAt(A, end) > RunUpperBound(s)
            /\ r.cardinality = sizes[s] + r.run_length
            /\ r.window_length = 1
            /\ r.valid
\* the runs load_sorted generates for the batch of the keys b
RunsOf(b) == load_generate_runs(Storage, SortedBatch(b, 0), 0, <<>>)
\* C35: on a non-empty index the runs generated for a sorted batch are
\* consecutive, cover the batch in order, are each the maximal stretch of
\* keys not greater than the separator of the segment after their target,
\* have strictly increasing targets and record seg_size[s] + run length
C35_RunsCutBatch ==
    (trap = "" /\ cardinality > 0) =>
      \A b \in Batches : RunsCut(SortedBatch(b, 0), RunsOf(b))
\* a batch is cut into three runs or more for an array of four segments,
\* one of them of several elements
C35_ThreeRunsGenerated ==
    /\ Written
    /\ number_segments = 4
    /\ \E b \in Batches :
         /\ Len(RunsOf(b)) >= 3
         /\ \E j \in 1..Len(RunsOf(b)) : RunsOf(b)[j].run_length >= 2

\* ----------------------------------------------------- the fusion of the runs
\* what load_fuse_runs makes of the runs of the batch of the keys b
FusedOf(b) == load_fuse_runs(Storage, RunsOf(b), 0)
\* the run r holds more than the upper bound of the height of its window
\* allows: that of the leaves for one segment, that of the height above
RunTooDense(r) ==
    IF r.window_length = 1 THEN r.cardinality * 100 > ThetaLeaves * B
    ELSE DensityAboveTheta(r.cardinality, r.window_length, Log2(r.window_length) + 1, height)
\* the runs that are left valid lie in windows that do not meet, share out
\* the n elements of the batch in stretches, count the elements of their
\* window and their own, and are within the upper bound of their window
RunsFused(runs, n) ==
    LET valid == {j \in 1..Len(runs) : runs[j].valid}
    IN /\ \A j, k \in valid :
            j < k => runs[j].window_start + runs[j].window_length <= runs[k].window_start
       /\ \A i \in 0..(n - 1) :
            Cardinality({j \in valid : /\ runs[j].run_start <= i
                                       /\ i < runs[j].run_start + runs[j].run_length}) = 1
       /\ \A j \in valid :
            /\ runs[j].run_length >= 1
            /\ runs[j].window_start % runs[j].window_length = 0
            /\ runs[j].window_start + runs[j].window_length <= number_segments
            /\ runs[j].cardinality
                 = ElementsIn(Storage, runs[j].window_start,
                              runs[j].window_start + runs[j].window_length)
                     + runs[j].run_length
            /\ ~RunTooDense(runs[j])
\* a run has taken the whole array and is still too dense
RunNeedsResize(runs) ==
    \E j \in 1..Len(runs) :
      /\ runs[j].valid
      /\ runs[j].window_length = number_segments
      /\ RunTooDense(runs[j])
\* C36: when the fusion of the runs does not signal a resize, the windows
\* of the valid runs are disjoint, every batch element is in the stretch of
\* exactly one valid run, each valid run counts the elements stored in its
\* window and its batch elements, and that count is within the upper bound
\* of the height of the window; a resize is signalled exactly when a run
\* has grown to the whole array and is still above the upper bound
C36_FusedRunsDisjoint ==
    (trap = "" /\ cardinality > 0) =>
      \A b \in Batches :
        LET Fused(F) == IF F.resize THEN RunNeedsResize(F.runs)
                        ELSE RunsFused(F.runs, Cardinality(b))
        IN Fused(FusedOf(b))
\* the fusion has absorbed a run into the window of another and has left
\* two valid runs, in an array of four segments
C36_RunAbsorbed ==
    /\ Written
    /\ number_segments = 4
    /\ \E b \in Batches :
         LET Absorbed(F) ==
                 /\ ~F.resize
                 /\ \E j \in 1..Len(F.runs) : ~F.runs[j].valid
                 /\ Cardinality({j \in 1..Len(F.runs) : F.runs[j].valid}) >= 2
         IN Absorbed(FusedOf(b))

\* ------------------------------------------------ the capacity a load picks
\* c is the smallest power of two with n / c <= num / den
SmallestPowerOfTwoFor(c, n, num, den) ==
    /\ PowerOfTwo(c)
    /\ c * num >= n * den
    /\ c > 1 => (c \div 2) * num < n * den
\* a load_sorted that has built a new array, run to its end
LoadResizedStep ==
    /\ nops' = nops + 1
    /\ last'.op = "load"
    /\ last'.path \cap {"empty_multi", "resize_rewire", "resize_general"} # {}
    /\ trap' = ""
\* the density the step has sized the new array for, as num / den: the mean
\* of the upper bounds of the root and of the leaves for an empty index,
\* the upper bound of the root for a resize
LoadedAtDensity(num, den) ==
    /\ SmallestPowerOfTwoFor(capacity', cardinality + Len(last'.batch), num, den)
    /\ capacity' = B * number_segments'
    /\ PowerOfTwo(number_segments')
    /\ number_segments' >= 2
    /\ capacity' > capacity
    /\ cardinality' = cardinality + Len(last'.batch)
    /\ \A s, t \in 0..(number_segments' - 1) : sizes'[s] - sizes'[t] <= 1
\* C37: load_sorted into an empty index of a batch that does not fit one
\* segment at the upper density of the leaves gives the capacity
\* hyperceil(ceil(|batch| / ((tau_root + tau_leaves) / 2))), a load_sorted
\* that resizes gives hyperceil(ceil((cardinality + |batch|) / tau_root));
\* the new number of segments is a power of two, 2 at least, the capacity
\* is larger than before and the cardinalities of the segments differ by
\* one at most
C37_LoadPicksCapacity ==
    [][LoadResizedStep =>
         IF cardinality = 0
         THEN /\ Len(last'.batch) * 100 > ThetaLeaves * B
              /\ LoadedAtDensity(ThetaRoot + ThetaLeaves, 200)
         ELSE LoadedAtDensity(ThetaRoot, 100)]_vars
\* a load has resized an index of two segments that held elements to four
C37_LoadResizedToFour ==
    /\ Completed
    /\ last.op = "load"
    /\ last.path \cap {"resize_rewire", "resize_general"} # {}
    /\ number_segments = 4
    /\ cardinality > Len(last.batch)

\* ------------------------------------------- the cardinality of a segment
\* every segment holds between 0 and B elements
SizesWithinCapacity == \A s \in 0..(number_segments - 1) : sizes[s] >= 0 /\ sizes[s] <= B
C39_NoEmptySegment ==
    (Written /\ number_segments > 1) => \A s \in 0..(number_segments - 1) : sizes[s] >= 1
\* a remove has emptied a segment of an array of four segments and the
\* spread of its window has given an element to each segment
C39_EmptiedSegmentRefilled ==
    /\ SpreadDone
    /\ last.op = "remove"
    /\ number_segments = 4
    /\ \E win \in last.windows : \A s \in win[1]..(win[1] + win[2] - 1) : sizes[s] = 1

\* ------------------------------------------------------------- termination
\* the copy loop of resize_general or of the rewired spread has run out of
\* elements to read with elements left to write, and so never ends
CopyLoopStarved == trap \in {"spread_elements", "resize_general"}
=============================================================================
